---- MODULE Spec2Model ----
(***************************************************************************)
(* Team inference (inferTeamsWithBFS) and battle segmentation              *)
(* (detectBattles) of the MyVMK snowball dashboard, as state machines.     *)
(*                                                                         *)
(* Conventions                                                             *)
(*   - a missing / empty attacker or victim is the empty string NoUser;    *)
(*   - a Map entry that does not exist (undefined) is NoTeam / NoSource /  *)
(*     NoConf;                                                             *)
(*   - confidence values are kept in hundredths (1.0 is 100), which is     *)
(*     exactly the grid Math.round(conf * 100) / 100 produces;             *)
(*   - Maps whose iteration order the code depends on are sequences in     *)
(*     insertion order.                                                    *)
(***************************************************************************)
EXTENDS Integers, Sequences, FiniteSets, TLC

\* ------------------------------------------------------------------ bounds
MaxEvents == 2     \* longest list of single events, malformed ones included
MaxSeeds == 2      \* most entries of the seed map
MaxBursts == 3     \* most bursts in a list of bursts
BurstLen == 11     \* events per burst: two bursts pass the 20-vote cap of line 201
MaxSegments == 2   \* most runs of evenly spaced hits in the input of detectBattles

\* ------------------------------------------------------------------ values
Users == {"A", "B", "C"}
\* the users the seed map may name; user names are interchangeable, so any seed
\* map over Users with at most two keys is one of these up to renaming
SeedUsers == {"A", "B"}
NoUser == ""
NoTeam == ""
NoSource == ""
NoConf == 0 - 1
Null == "null"
RealTeams == {"Penguin", "Reindeer"}
SeedValues == {"Penguin", "Reindeer", "Unknown"}

VARIABLES
    events,           \* argument: sequence of [attacker, victim]
    seedTeams,        \* argument: Object.entries order, sequence of <<user, team>>
    pc,               \* position inside inferTeamsWithBFS
    adj,              \* user -> sequence of [v, n] in Map insertion order
    allUsers,         \* Set of users seen
    teamOf,           \* user -> team, NoTeam when absent
    inferenceSource,  \* user -> "seeded" | "inferred" | "unknown", NoSource when absent
    confidence,       \* user -> hundredths, NoConf when absent
    conflicts,        \* sequence of Conflict records
    evidence,         \* user -> vote tally
    evOrder,          \* keys of the evidence Map in insertion order
    queue,            \* BFS queue
    visited,          \* Set of users ever enqueued
    u,                \* user being processed by the while loop, NoUser between iterations
    idx,              \* position of the for loop in neighbors.entries()
    firstFrom,        \* history: the user being dequeued when v was first assigned
    dequeued,         \* history: the users queue.shift() returned, in order
    visits,           \* history: the entries <<u, v>> the for loop of line 135 handled
    run,              \* number of the current invocation
    firstResult,      \* what the first invocation returned, <<>> before that
    \* detectBattles
    hits,             \* argument: sequence of hit events
    bpc,              \* position inside detectBattles
    byRoom,           \* Map room -> events, as a sequence of [room, evts] in insertion order
    roomIdx,          \* position of the for loop over byRoom.entries()
    sorted,           \* the parsed, filtered and sorted events of the current room
    pos,              \* position of the sweep in sorted
    cluster,          \* the open cluster
    prev,             \* __t of the previous event of the sweep, NoTime for null
    roomCounter,      \* number of the next battle of the current room
    battles,          \* the battles pushed so far; the returned list once bpc = "done"
    clusterLog        \* history: every cluster handed to flush, with what flush did

inferVars == <<events, seedTeams, pc, adj, allUsers, teamOf, inferenceSource, confidence,
               conflicts, evidence, evOrder, queue, visited, u, idx, firstFrom,
               dequeued, visits, run, firstResult>>

battleVars == <<hits, bpc, byRoom, roomIdx, sorted, pos, cluster, prev, roomCounter,
                battles, clusterLog>>

vars == <<inferVars, battleVars>>

inputs == <<events, seedTeams>>

\* ------------------------------------------------------------------ helpers
SeqsUpTo(S, n) == UNION {[1..k -> S] : k \in 0..n}

Range(s) == {s[i] : i \in 1..Len(s)}

Min(a, b) == IF a < b THEN a ELSE b

Abs(a) == IF a < 0 THEN 0 - a ELSE a

EventSet == [attacker : Users \cup {NoUser}, victim : Users \cup {NoUser}]

WellFormedEvents == {e \in EventSet : e.attacker # NoUser /\ e.victim # NoUser}

\* every event of the list n times in a row
Repeat(evs, n) == [i \in 1..(Len(evs) * n) |-> evs[((i - 1) \div n) + 1]]

\* a burst repeats one hit between two different users
BurstEvents == {e \in WellFormedEvents : e.attacker # e.victim}

\* the event lists tried: every list of up to MaxEvents events, malformed ones
\* and self-hits included, and every list of up to MaxBursts bursts of BurstLen
\* equal hits
EventLists ==
    SeqsUpTo(EventSet, MaxEvents)
    \cup {Repeat(b, BurstLen) : b \in SeqsUpTo(BurstEvents, MaxBursts)}

\* A JS object has one entry per key.
SeedMaps ==
    {s \in SeqsUpTo(SeedUsers \X SeedValues, MaxSeeds) :
        \A i, j \in 1..Len(s) : i # j => s[i][1] # s[j][1]}

\* mutant of opposite: the team is handed on unchanged
oppositeSame(team) == team

opposite(team) ==
    IF team = "Reindeer" THEN "Penguin"
    ELSE IF team = "Penguin" THEN "Reindeer"
    ELSE "Unknown"

\* neighbors.has(b)
HasNeighbor(nbrs, b) == \E i \in 1..Len(nbrs) : nbrs[i].v = b

\* neighbors.set(b, (neighbors.get(b) || 0) + 1)
Bump(nbrs, b) ==
    IF HasNeighbor(nbrs, b)
    THEN [i \in 1..Len(nbrs) |->
            IF nbrs[i].v = b THEN [nbrs[i] EXCEPT !.n = @ + 1] ELSE nbrs[i]]
    ELSE Append(nbrs, [v |-> b, n |-> 1])

\* mutant of addEdge: only the attacker's side of the edge is stored
addEdgeOneWay(g, a, b) == [g EXCEPT ![a] = Bump(@, b)]

\* mutant of addEdge: a hit of a user on itself is counted once
addEdgeSelfOnce(g, a, b) ==
    IF a = b THEN [g EXCEPT ![a] = Bump(@, b)]
    ELSE [[g EXCEPT ![a] = Bump(@, b)] EXCEPT ![b] = Bump(@, a)]

addEdge(g, a, b) ==
    LET g1 == [g EXCEPT ![a] = Bump(@, b)]
    IN  [g1 EXCEPT ![b] = Bump(@, a)]

EmptyAdj == [x \in Users |-> <<>>]

RECURSIVE AddEvents(_, _, _, _)
\* the for loop of lines 96-104 over evs[lo..hi], in order; the range is split in
\* two, and the middle index and the graph after the first half are bound as
\* values before the second half is entered, so that the evaluation stays
\* shallow on long lists
AddEvents(evs, g, lo, hi) ==
    IF lo > hi THEN g
    ELSE IF lo = hi
    THEN IF evs[lo].attacker # NoUser /\ evs[lo].victim # NoUser
         THEN addEdge(g, evs[lo].attacker, evs[lo].victim)
         ELSE g
    ELSE CHOOSE r \in UNION {{AddEvents(evs, left, mid + 1, hi) :
                                left \in {AddEvents(evs, g, lo, mid)}} :
                             mid \in {(lo + hi) \div 2}} : TRUE

BuildAdj(evs, g) == AddEvents(evs, g, 1, Len(evs))

CollectUsers(evs) ==
    {evs[i].attacker : i \in {j \in 1..Len(evs) : evs[j].attacker # NoUser}}
    \cup {evs[i].victim : i \in {j \in 1..Len(evs) : evs[j].victim # NoUser}}

\* mutant of SeededEntries: the test of line 117 is left out
SeededEntriesAll(seed) == seed

\* the entries of seedTeams that pass the test of line 117, in order
SeededEntries(seed) == SelectSeq(seed, LAMBDA e : e[2] \in RealTeams)

\* the team line 118 stores for x, NoTeam when x is not seeded
SeedTeam(seed, x) ==
    LET seeded == SeededEntries(seed)
    IN  IF \E i \in 1..Len(seeded) : seeded[i][1] = x
        THEN (CHOOSE e \in Range(seeded) : e[1] = x)[2]
        ELSE NoTeam

EmptyTally == [penguinVotes |-> 0, reindeerVotes |-> 0, totalEdges |-> 0]

\* lines 145-149 and 175-179
AddVotes(ev, team, edgeCount) ==
    IF team = "Penguin"
    THEN [ev EXCEPT !.penguinVotes = @ + edgeCount, !.totalEdges = @ + edgeCount]
    ELSE [ev EXCEPT !.reindeerVotes = @ + edgeCount, !.totalEdges = @ + edgeCount]

\* Math.round(x) for x = num / den >= 0
RoundDiv(num, den) == (2 * num + den) \div (2 * den)

\* mutant of ConfidenceOf: the evidence bonus is not capped at 1
ConfidenceOfUncapped(ev) ==
    LET total == ev.penguinVotes + ev.reindeerVotes
        margin == Abs(ev.penguinVotes - ev.reindeerVotes)
    IN  IF total = 0 THEN 0
        ELSE RoundDiv(60 * margin * 20 + 40 * total * total, 20 * total)

\* mutant of ConfidenceOf: the two weights 0.6 and 0.4 change places
ConfidenceOfSwappedWeights(ev) ==
    LET total == ev.penguinVotes + ev.reindeerVotes
        margin == Abs(ev.penguinVotes - ev.reindeerVotes)
    IN  IF total = 0 THEN 0
        ELSE RoundDiv(40 * margin * 20 + 60 * Min(total, 20) * total, 20 * total)

\* lines 188-205, in hundredths
ConfidenceOf(ev) ==
    LET total == ev.penguinVotes + ev.reindeerVotes
        margin == Abs(ev.penguinVotes - ev.reindeerVotes)
    IN  IF total = 0 THEN 0
        ELSE RoundDiv(60 * margin * 20 + 40 * Min(total, 20) * total, 20 * total)

\* ------------------------------------------------------------------ state
FreshLocals ==
    /\ pc = "build"
    /\ adj = EmptyAdj
    /\ allUsers = {}
    /\ teamOf = [x \in Users |-> NoTeam]
    /\ inferenceSource = [x \in Users |-> NoSource]
    /\ confidence = [x \in Users |-> NoConf]
    /\ conflicts = <<>>
    /\ evidence = [x \in Users |-> EmptyTally]
    /\ evOrder = <<>>
    /\ queue = <<>>
    /\ visited = {}
    /\ u = NoUser
    /\ idx = 0
    /\ firstFrom = [x \in Users |-> NoUser]
    /\ dequeued = <<>>
    /\ visits = <<>>

NoTime == 0 - 1

\* a Date object whose time value is NaN
InvalidDate == 0 - 2

\* detectBattles is not running
BattlesIdle ==
    /\ hits = <<>>
    /\ bpc = "idle"
    /\ byRoom = <<>>
    /\ roomIdx = 0
    /\ sorted = <<>>
    /\ pos = 0
    /\ cluster = <<>>
    /\ prev = NoTime
    /\ roomCounter = 0
    /\ battles = <<>>
    /\ clusterLog = <<>>

Init ==
    /\ events \in EventLists
    /\ seedTeams \in SeedMaps
    /\ run = 1
    /\ firstResult = <<>>
    /\ FreshLocals
    /\ BattlesIdle

\* ------------------------------------------------------------------ actions
\* e with a missing end replaced by its other end
AsSelfHit(e) ==
    [attacker |-> IF e.attacker = NoUser THEN e.victim ELSE e.attacker,
     victim |-> IF e.victim = NoUser THEN e.attacker ELSE e.victim]

\* mutant of BuildGraph: an event that lacks one end is added to the graph as a
\* hit of the other end on itself
BuildGraphKeepMalformed ==
    /\ pc = "build"
    /\ UNCHANGED battleVars
    /\ adj' = BuildAdj([i \in 1..Len(events) |-> AsSelfHit(events[i])] \o <<>>, adj)
    /\ allUsers' = allUsers \cup CollectUsers(events)
    /\ pc' = "seed"
    /\ UNCHANGED <<inputs, teamOf, inferenceSource, confidence, conflicts, evidence,
                  evOrder, queue, visited, u, idx, firstFrom, dequeued, visits, run,
                  firstResult>>

\* lines 96-104
BuildGraph ==
    /\ pc = "build"
    /\ UNCHANGED battleVars
    /\ adj' = BuildAdj(events, adj)
    /\ allUsers' = allUsers \cup CollectUsers(events)
    /\ pc' = "seed"
    /\ UNCHANGED <<inputs, teamOf, inferenceSource, confidence, conflicts, evidence,
                  evOrder, queue, visited, u, idx, firstFrom, dequeued, visits, run,
                  firstResult>>

\* lines 115-126
SeedKnownTeams ==
    /\ pc = "seed"
    /\ UNCHANGED battleVars
    /\ LET seeded == SeededEntries(seedTeams)
           keys == [i \in 1..Len(seeded) |-> seeded[i][1]]
       IN  /\ teamOf' = [x \in Users |->
                            IF x \in Range(keys) THEN SeedTeam(seedTeams, x) ELSE teamOf[x]]
           /\ inferenceSource' = [x \in Users |->
                            IF x \in Range(keys) THEN "seeded" ELSE inferenceSource[x]]
           /\ confidence' = [x \in Users |->
                            IF x \in Range(keys) THEN 100 ELSE confidence[x]]
           /\ queue' = keys
           /\ visited' = Range(keys)
    /\ pc' = "bfs"
    /\ UNCHANGED <<inputs, adj, allUsers, conflicts, evidence, evOrder, u, idx,
                  firstFrom, dequeued, visits, run,
                  firstResult>>

\* the entry of neighbors.entries() the for loop is at
CurEdge == adj[u][idx]

\* the for loop moves on; after the last entry the while loop takes over
AdvanceLoop ==
    IF idx < Len(adj[u])
    THEN idx' = idx + 1 /\ u' = u
    ELSE idx' = 0 /\ u' = NoUser

\* mutant of Dequeue: the user is taken from the end of the queue
DequeueLIFO ==
    /\ pc = "bfs"
    /\ UNCHANGED battleVars
    /\ u = NoUser
    /\ queue # <<>>
    /\ queue' = SubSeq(queue, 1, Len(queue) - 1)
    /\ IF adj[queue[Len(queue)]] = <<>>
       THEN u' = NoUser /\ idx' = 0
       ELSE u' = queue[Len(queue)] /\ idx' = 1
    /\ dequeued' = Append(dequeued, queue[Len(queue)])
    /\ UNCHANGED <<inputs, pc, adj, allUsers, teamOf, inferenceSource, confidence,
                  conflicts, evidence, evOrder, visited, firstFrom, visits, run,
                  firstResult>>

\* lines 128-133: queue.shift(); a user without neighbours is skipped
Dequeue ==
    /\ pc = "bfs"
    /\ UNCHANGED battleVars
    /\ u = NoUser
    /\ queue # <<>>
    /\ queue' = Tail(queue)
    /\ IF adj[Head(queue)] = <<>>
       THEN u' = NoUser /\ idx' = 0
       ELSE u' = Head(queue) /\ idx' = 1
    /\ dequeued' = Append(dequeued, Head(queue))
    /\ UNCHANGED <<inputs, pc, adj, allUsers, teamOf, inferenceSource, confidence,
                  conflicts, evidence, evOrder, visited, firstFrom, visits, run,
                  firstResult>>

\* mutant of VisitUnassigned: the newly assigned user is not enqueued
VisitUnassignedNoEnqueue ==
    /\ pc = "bfs"
    /\ UNCHANGED battleVars
    /\ u # NoUser
    /\ LET v == CurEdge.v
           edgeCount == CurEdge.n
           expectedTeam == opposite(teamOf[u])
       IN  /\ teamOf[v] = NoTeam
           /\ teamOf' = [teamOf EXCEPT ![v] = expectedTeam]
           /\ inferenceSource' = [inferenceSource EXCEPT ![v] = "inferred"]
           /\ evOrder' = IF v \in Range(evOrder) THEN evOrder ELSE Append(evOrder, v)
           /\ evidence' = [evidence EXCEPT ![v] = AddVotes(@, expectedTeam, edgeCount)]
           /\ visited' = visited \cup {v}
           /\ queue' = queue
           /\ firstFrom' = [firstFrom EXCEPT ![v] = u]
           /\ visits' = Append(visits, <<u, v>>)
           /\ UNCHANGED dequeued
    /\ AdvanceLoop
    /\ UNCHANGED <<inputs, pc, adj, allUsers, confidence, conflicts, run, firstResult>>

\* lines 139-154
VisitUnassigned ==
    /\ pc = "bfs"
    /\ UNCHANGED battleVars
    /\ u # NoUser
    /\ LET v == CurEdge.v
           edgeCount == CurEdge.n
           expectedTeam == opposite(teamOf[u])
       IN  /\ teamOf[v] = NoTeam
           /\ teamOf' = [teamOf EXCEPT ![v] = expectedTeam]
           /\ inferenceSource' = [inferenceSource EXCEPT ![v] = "inferred"]
           /\ evOrder' = IF v \in Range(evOrder) THEN evOrder ELSE Append(evOrder, v)
           /\ evidence' = [evidence EXCEPT ![v] = AddVotes(@, expectedTeam, edgeCount)]
           /\ IF v \notin visited
              THEN visited' = visited \cup {v} /\ queue' = Append(queue, v)
              ELSE UNCHANGED <<visited, queue>>
           /\ firstFrom' = [firstFrom EXCEPT ![v] = u]
           /\ visits' = Append(visits, <<u, v>>)
           /\ UNCHANGED dequeued
    /\ AdvanceLoop
    /\ UNCHANGED <<inputs, pc, adj, allUsers, confidence, conflicts, run, firstResult>>

\* mutant of VisitConflict: the weight of the edge is also added to the tally of
\* an inferred v, as votes for the expected team
VisitConflictTally ==
    /\ pc = "bfs"
    /\ UNCHANGED battleVars
    /\ u # NoUser
    /\ LET v == CurEdge.v
           edgeCount == CurEdge.n
           ut == teamOf[u]
           expectedTeam == opposite(ut)
           currentTeam == teamOf[v]
       IN  /\ currentTeam # NoTeam
           /\ currentTeam # expectedTeam
           /\ conflicts' = Append(conflicts,
                  [user1 |-> u, team1 |-> ut, source1 |-> inferenceSource[u],
                   user2 |-> v, team2 |-> currentTeam, source2 |-> inferenceSource[v],
                   expected |-> expectedTeam, edgeCount |-> edgeCount])
           /\ IF inferenceSource[v] = "inferred"
              THEN evidence' = [evidence EXCEPT
                                  ![v] = AddVotes(@, expectedTeam, edgeCount)]
              ELSE UNCHANGED evidence
    /\ visits' = Append(visits, <<u, CurEdge.v>>)
    /\ AdvanceLoop
    /\ UNCHANGED <<inputs, pc, adj, allUsers, teamOf, inferenceSource, confidence,
                  evOrder, queue, visited, firstFrom, dequeued, run,
                  firstResult>>

\* mutant of VisitConflict: the conflict is logged and the label flipped
VisitConflictReassign ==
    /\ pc = "bfs"
    /\ UNCHANGED battleVars
    /\ u # NoUser
    /\ LET v == CurEdge.v
           edgeCount == CurEdge.n
           ut == teamOf[u]
           expectedTeam == opposite(ut)
           currentTeam == teamOf[v]
       IN  /\ currentTeam # NoTeam
           /\ currentTeam # expectedTeam
           /\ conflicts' = Append(conflicts,
                  [user1 |-> u, team1 |-> ut, source1 |-> inferenceSource[u],
                   user2 |-> v, team2 |-> currentTeam, source2 |-> inferenceSource[v],
                   expected |-> expectedTeam, edgeCount |-> edgeCount])
           /\ teamOf' = [teamOf EXCEPT ![v] = expectedTeam]
    /\ visits' = Append(visits, <<u, CurEdge.v>>)
    /\ AdvanceLoop
    /\ UNCHANGED <<inputs, pc, adj, allUsers, inferenceSource, confidence,
                  evidence, evOrder, queue, visited, firstFrom, dequeued, run,
                  firstResult>>

\* mutant of VisitConflict: the list is assigned instead of pushed to
VisitConflictOverwrite ==
    /\ pc = "bfs"
    /\ UNCHANGED battleVars
    /\ u # NoUser
    /\ LET v == CurEdge.v
           edgeCount == CurEdge.n
           ut == teamOf[u]
           expectedTeam == opposite(ut)
           currentTeam == teamOf[v]
       IN  /\ currentTeam # NoTeam
           /\ currentTeam # expectedTeam
           /\ conflicts' = <<[user1 |-> u, team1 |-> ut, source1 |-> inferenceSource[u],
                   user2 |-> v, team2 |-> currentTeam, source2 |-> inferenceSource[v],
                   expected |-> expectedTeam, edgeCount |-> edgeCount]>>
    /\ visits' = Append(visits, <<u, CurEdge.v>>)
    /\ AdvanceLoop
    /\ UNCHANGED <<inputs, pc, adj, allUsers, teamOf, inferenceSource, confidence,
                  evidence, evOrder, queue, visited, firstFrom, dequeued, run,
                  firstResult>>

\* mutant of VisitConflict: the user met on a same-team edge is put back on the
\* queue
VisitConflictReenqueue ==
    /\ pc = "bfs"
    /\ UNCHANGED battleVars
    /\ u # NoUser
    /\ LET v == CurEdge.v
           edgeCount == CurEdge.n
           ut == teamOf[u]
           expectedTeam == opposite(ut)
           currentTeam == teamOf[v]
       IN  /\ currentTeam # NoTeam
           /\ currentTeam # expectedTeam
           /\ conflicts' = Append(conflicts,
                  [user1 |-> u, team1 |-> ut, source1 |-> inferenceSource[u],
                   user2 |-> v, team2 |-> currentTeam, source2 |-> inferenceSource[v],
                   expected |-> expectedTeam, edgeCount |-> edgeCount])
           /\ queue' = Append(queue, v)
    /\ visits' = Append(visits, <<u, CurEdge.v>>)
    /\ AdvanceLoop
    /\ UNCHANGED <<inputs, pc, adj, allUsers, teamOf, inferenceSource, confidence,
                  evidence, evOrder, visited, firstFrom, dequeued, run,
                  firstResult>>

\* mutant of VisitConflict: the hits of the same-team edge count as evidence for
\* the team an inferred v holds
VisitConflictAsEvidence ==
    /\ pc = "bfs"
    /\ UNCHANGED battleVars
    /\ u # NoUser
    /\ LET v == CurEdge.v
           edgeCount == CurEdge.n
           ut == teamOf[u]
           expectedTeam == opposite(ut)
           currentTeam == teamOf[v]
       IN  /\ currentTeam # NoTeam
           /\ currentTeam # expectedTeam
           /\ conflicts' = Append(conflicts,
                  [user1 |-> u, team1 |-> ut, source1 |-> inferenceSource[u],
                   user2 |-> v, team2 |-> currentTeam, source2 |-> inferenceSource[v],
                   expected |-> expectedTeam, edgeCount |-> edgeCount])
           /\ IF inferenceSource[v] = "inferred"
              THEN evidence' = [evidence EXCEPT
                                  ![v] = AddVotes(@, currentTeam, edgeCount)]
              ELSE UNCHANGED evidence
    /\ visits' = Append(visits, <<u, CurEdge.v>>)
    /\ AdvanceLoop
    /\ UNCHANGED <<inputs, pc, adj, allUsers, teamOf, inferenceSource, confidence,
                  evOrder, queue, visited, firstFrom, dequeued, run,
                  firstResult>>

\* mutant of VisitConflict: an edge already recorded from its other end is not
\* recorded again
VisitConflictOnce ==
    /\ pc = "bfs"
    /\ UNCHANGED battleVars
    /\ u # NoUser
    /\ LET v == CurEdge.v
           edgeCount == CurEdge.n
           ut == teamOf[u]
           expectedTeam == opposite(ut)
           currentTeam == teamOf[v]
       IN  /\ currentTeam # NoTeam
           /\ currentTeam # expectedTeam
           /\ conflicts' =
                IF \E i \in 1..Len(conflicts) :
                        conflicts[i].user1 = v /\ conflicts[i].user2 = u
                THEN conflicts
                ELSE Append(conflicts,
                       [user1 |-> u, team1 |-> ut, source1 |-> inferenceSource[u],
                        user2 |-> v, team2 |-> currentTeam, source2 |-> inferenceSource[v],
                        expected |-> expectedTeam, edgeCount |-> edgeCount])
    /\ visits' = Append(visits, <<u, CurEdge.v>>)
    /\ AdvanceLoop
    /\ UNCHANGED <<inputs, pc, adj, allUsers, teamOf, inferenceSource, confidence,
                  evidence, evOrder, queue, visited, firstFrom, dequeued, run,
                  firstResult>>

\* lines 155-171
VisitConflict ==
    /\ pc = "bfs"
    /\ UNCHANGED battleVars
    /\ u # NoUser
    /\ LET v == CurEdge.v
           edgeCount == CurEdge.n
           ut == teamOf[u]
           expectedTeam == opposite(ut)
           currentTeam == teamOf[v]
       IN  /\ currentTeam # NoTeam
           /\ currentTeam # expectedTeam
           /\ conflicts' = Append(conflicts,
                  [user1 |-> u, team1 |-> ut, source1 |-> inferenceSource[u],
                   user2 |-> v, team2 |-> currentTeam, source2 |-> inferenceSource[v],
                   expected |-> expectedTeam, edgeCount |-> edgeCount])
    /\ visits' = Append(visits, <<u, CurEdge.v>>)
    /\ AdvanceLoop
    /\ UNCHANGED <<inputs, pc, adj, allUsers, teamOf, inferenceSource, confidence,
                  evidence, evOrder, queue, visited, firstFrom, dequeued, run,
                  firstResult>>

\* mutant of VisitAgreement: the user met again is put back on the queue
VisitAgreementReenqueue ==
    /\ pc = "bfs"
    /\ UNCHANGED battleVars
    /\ u # NoUser
    /\ LET v == CurEdge.v
           edgeCount == CurEdge.n
           expectedTeam == opposite(teamOf[u])
       IN  /\ teamOf[v] # NoTeam
           /\ teamOf[v] = expectedTeam
           /\ queue' = Append(queue, v)
           /\ IF inferenceSource[v] = "inferred"
              THEN /\ evOrder' = IF v \in Range(evOrder) THEN evOrder
                                 ELSE Append(evOrder, v)
                   /\ evidence' = [evidence EXCEPT
                                      ![v] = AddVotes(@, expectedTeam, edgeCount)]
              ELSE UNCHANGED <<evidence, evOrder>>
    /\ visits' = Append(visits, <<u, CurEdge.v>>)
    /\ AdvanceLoop
    /\ UNCHANGED <<inputs, pc, adj, allUsers, teamOf, inferenceSource, confidence,
                  conflicts, visited, firstFrom, dequeued, run,
                  firstResult>>

\* lines 172-181
VisitAgreement ==
    /\ pc = "bfs"
    /\ UNCHANGED battleVars
    /\ u # NoUser
    /\ LET v == CurEdge.v
           edgeCount == CurEdge.n
           expectedTeam == opposite(teamOf[u])
       IN  /\ teamOf[v] # NoTeam
           /\ teamOf[v] = expectedTeam
           /\ IF inferenceSource[v] = "inferred"
              THEN /\ evOrder' = IF v \in Range(evOrder) THEN evOrder
                                 ELSE Append(evOrder, v)
                   /\ evidence' = [evidence EXCEPT
                                      ![v] = AddVotes(@, expectedTeam, edgeCount)]
              ELSE UNCHANGED <<evidence, evOrder>>
    /\ visits' = Append(visits, <<u, CurEdge.v>>)
    /\ AdvanceLoop
    /\ UNCHANGED <<inputs, pc, adj, allUsers, teamOf, inferenceSource, confidence,
                  conflicts, queue, visited, firstFrom, dequeued, run,
                  firstResult>>

\* lines 185-207, entered when the while loop ends
CalculateConfidence ==
    /\ pc = "bfs"
    /\ UNCHANGED battleVars
    /\ u = NoUser
    /\ queue = <<>>
    /\ confidence' = [x \in Users |->
                        IF x \in Range(evOrder) /\ inferenceSource[x] = "inferred"
                        THEN ConfidenceOf(evidence[x])
                        ELSE confidence[x]]
    /\ pc' = "check"
    /\ UNCHANGED <<inputs, adj, allUsers, teamOf, inferenceSource, conflicts, evidence,
                  evOrder, queue, visited, u, idx, firstFrom, dequeued, visits, run,
                  firstResult>>

\* mutant of HeavilyAgainst: the two tallies are compared the wrong way round
HeavilyAgainstSwapped(assignedTeam, ev) ==
    \/ assignedTeam = "Penguin" /\ ev.penguinVotes > ev.reindeerVotes * 2
    \/ assignedTeam = "Reindeer" /\ ev.reindeerVotes > ev.penguinVotes * 2

\* lines 216-241: does the tally of user x call for a self-contradiction record
HeavilyAgainst(assignedTeam, ev) ==
    \/ assignedTeam = "Penguin" /\ ev.reindeerVotes > ev.penguinVotes * 2
    \/ assignedTeam = "Reindeer" /\ ev.penguinVotes > ev.reindeerVotes * 2

SelfConflict(x) ==
    LET ev == evidence[x]
        assignedTeam == teamOf[x]
    IN  [user1 |-> x, team1 |-> assignedTeam, source1 |-> "inferred",
         user2 |-> Null, team2 |-> Null, source2 |-> Null,
         expected |-> IF assignedTeam = "Penguin" THEN "Reindeer" ELSE "Penguin",
         edgeCount |-> IF assignedTeam = "Penguin" THEN ev.reindeerVotes
                       ELSE ev.penguinVotes]

RECURSIVE SelfConflicts(_)
SelfConflicts(order) ==
    IF order = <<>> THEN <<>>
    ELSE LET x == Head(order)
         IN  (IF inferenceSource[x] = "inferred" /\ HeavilyAgainst(teamOf[x], evidence[x])
              THEN <<SelfConflict(x)>> ELSE <<>>)
             \o SelfConflicts(Tail(order))

\* lines 209-243
CheckConflictingEvidence ==
    /\ pc = "check"
    /\ UNCHANGED battleVars
    /\ conflicts' = conflicts \o SelfConflicts(evOrder)
    /\ pc' = "fill"
    /\ UNCHANGED <<inputs, adj, allUsers, teamOf, inferenceSource, confidence, evidence,
                  evOrder, queue, visited, u, idx, firstFrom, dequeued, visits, run,
                  firstResult>>

\* lines 245-259: the remaining users become Unknown and the function returns
AssignUnknown ==
    /\ pc = "fill"
    /\ UNCHANGED battleVars
    /\ teamOf' = [x \in Users |->
                    IF x \in allUsers /\ teamOf[x] = NoTeam THEN "Unknown" ELSE teamOf[x]]
    /\ confidence' = [x \in Users |->
                    IF x \in allUsers /\ teamOf[x] = NoTeam THEN 0 ELSE confidence[x]]
    /\ inferenceSource' = [x \in Users |->
                    IF x \in allUsers /\ teamOf[x] = NoTeam THEN "unknown"
                    ELSE inferenceSource[x]]
    /\ pc' = "done"
    /\ UNCHANGED <<inputs, adj, allUsers, conflicts, evidence, evOrder, queue, visited,
                  u, idx, firstFrom, dequeued, visits, run,
                  firstResult>>

\* lines 254-259: the returned object
Result ==
    [teamMap |-> teamOf, conflicts |-> conflicts, confidence |-> confidence,
     inferenceSource |-> inferenceSource]

\* mutant of Reinvoke: the conflicts list lives outside the function
ReinvokeKeepConflicts ==
    /\ pc = "done"
    /\ UNCHANGED battleVars
    /\ run = 1
    /\ run' = 2
    /\ firstResult' = <<[teamMap |-> teamOf, conflicts |-> conflicts,
                         confidence |-> confidence,
                         inferenceSource |-> inferenceSource]>>
    /\ pc' = "build"
    /\ adj' = EmptyAdj
    /\ allUsers' = {}
    /\ teamOf' = [x \in Users |-> NoTeam]
    /\ inferenceSource' = [x \in Users |-> NoSource]
    /\ confidence' = [x \in Users |-> NoConf]
    /\ evidence' = [x \in Users |-> EmptyTally]
    /\ evOrder' = <<>>
    /\ queue' = <<>>
    /\ visited' = {}
    /\ u' = NoUser
    /\ idx' = 0
    /\ firstFrom' = [x \in Users |-> NoUser]
    /\ dequeued' = <<>>
    /\ visits' = <<>>
    /\ UNCHANGED <<inputs, conflicts>>

\* lines 85-113: a second call with the same arguments; every collection is a
\* fresh local of the call
Reinvoke ==
    /\ pc = "done"
    /\ UNCHANGED battleVars
    /\ run = 1
    /\ run' = 2
    /\ firstResult' = <<Result>>
    /\ pc' = "build"
    /\ adj' = EmptyAdj
    /\ allUsers' = {}
    /\ teamOf' = [x \in Users |-> NoTeam]
    /\ inferenceSource' = [x \in Users |-> NoSource]
    /\ confidence' = [x \in Users |-> NoConf]
    /\ conflicts' = <<>>
    /\ evidence' = [x \in Users |-> EmptyTally]
    /\ evOrder' = <<>>
    /\ queue' = <<>>
    /\ visited' = {}
    /\ u' = NoUser
    /\ idx' = 0
    /\ firstFrom' = [x \in Users |-> NoUser]
    /\ dequeued' = <<>>
    /\ visits' = <<>>
    /\ UNCHANGED inputs

Next ==
    \/ BuildGraph
    \/ SeedKnownTeams
    \/ Dequeue
    \/ VisitUnassigned
    \/ VisitConflict
    \/ VisitAgreement
    \/ CalculateConfidence
    \/ CheckConflictingEvidence
    \/ AssignUnknown

\* one call of inferTeamsWithBFS
Spec == Init /\ [][Next]_vars

\* one call, run to its end: the function is synchronous, single-threaded code
\* that nothing suspends, so a step that can be taken is taken
SpecFair == Init /\ [][Next]_vars /\ WF_vars(Next)

\* line 99 and line 101: the event lacks an end, and addEdge is not called for it
IsMalformed(e) == e.attacker = NoUser \/ e.victim = NoUser

\* evs without its i-th element
RemoveAt(evs, i) == SubSeq(evs, 1, i - 1) \o SubSeq(evs, i + 1, Len(evs))

\* lines 85-113: a second call, on the same seed map and on the events of the
\* first call with one malformed event taken out; the result of the first call
\* and the event taken out are kept for comparison
ReinvokeWithoutMalformed ==
    /\ pc = "done"
    /\ UNCHANGED battleVars
    /\ run = 1
    /\ run' = 2
    /\ \E i \in 1..Len(events) :
        /\ IsMalformed(events[i])
        /\ events' = RemoveAt(events, i)
        /\ firstResult' = <<Result, events[i]>>
    /\ pc' = "build"
    /\ adj' = EmptyAdj
    /\ allUsers' = {}
    /\ teamOf' = [x \in Users |-> NoTeam]
    /\ inferenceSource' = [x \in Users |-> NoSource]
    /\ confidence' = [x \in Users |-> NoConf]
    /\ conflicts' = <<>>
    /\ evidence' = [x \in Users |-> EmptyTally]
    /\ evOrder' = <<>>
    /\ queue' = <<>>
    /\ visited' = {}
    /\ u' = NoUser
    /\ idx' = 0
    /\ firstFrom' = [x \in Users |-> NoUser]
    /\ dequeued' = <<>>
    /\ visits' = <<>>
    /\ UNCHANGED seedTeams

NextWithout == Next \/ ReinvokeWithoutMalformed

\* a call, and a call on the same arguments less one malformed event
SpecWithout == Init /\ [][NextWithout]_vars

\* the attacker of e is its victim
IsSelfHit(e) == e.attacker # NoUser /\ e.attacker = e.victim

\* lines 85-113: a second call, on the same seed map and on the events of the
\* first call that are not self-hits; the result of the first call is kept for
\* comparison
ReinvokeWithoutSelfHits ==
    /\ pc = "done"
    /\ UNCHANGED battleVars
    /\ run = 1
    /\ run' = 2
    /\ \E i \in 1..Len(events) : IsSelfHit(events[i])
    /\ events' = SelectSeq(events, LAMBDA e : ~IsSelfHit(e))
    /\ firstResult' = <<Result>>
    /\ pc' = "build"
    /\ adj' = EmptyAdj
    /\ allUsers' = {}
    /\ teamOf' = [x \in Users |-> NoTeam]
    /\ inferenceSource' = [x \in Users |-> NoSource]
    /\ confidence' = [x \in Users |-> NoConf]
    /\ conflicts' = <<>>
    /\ evidence' = [x \in Users |-> EmptyTally]
    /\ evOrder' = <<>>
    /\ queue' = <<>>
    /\ visited' = {}
    /\ u' = NoUser
    /\ idx' = 0
    /\ firstFrom' = [x \in Users |-> NoUser]
    /\ dequeued' = <<>>
    /\ visits' = <<>>
    /\ UNCHANGED seedTeams

NextWithoutSelfHits == Next \/ ReinvokeWithoutSelfHits

\* a call, and a call on the same arguments less the self-hits
SpecWithoutSelfHits == Init /\ [][NextWithoutSelfHits]_vars

\* two calls in a row on the same arguments
NextTwice == Next \/ Reinvoke

SpecTwice == Init /\ [][NextTwice]_vars

\* ====================================================================== detectBattles
\* A hit event here is [time, attacker, victim, roomName, roomId]. time stands
\* for the string "YYYY-MM-DD HH:MM:SS" of one fixed day: [kind, hour, minute,
\* second], kind "ok" for a well-formed string, "empty" for a missing one and
\* "partial" for one without its seconds ("YYYY-MM-DD HH:MM"). Parsed times
\* (__t) are milliseconds since that day's midnight, or InvalidDate; start and
\* end of a battle are kept as these instants. The team fields of participants
\* are left out.

BATTLE_MIN_HITS == 30

BATTLE_MAX_GAP_SECONDS == 120

\* mutant of safeRatio: the test of line 205 is left out
safeRatioUnguarded(attacks, hitsTaken) == <<attacks, hitsTaken>>

\* app.js lines 204-207, as the fraction <<numerator, denominator>>
safeRatio(attacks, hitsTaken) ==
    IF hitsTaken = 0 THEN (IF attacks # 0 THEN <<attacks, 1>> ELSE <<0, 1>>)
    ELSE <<attacks, hitsTaken>>

\* lines 212-220: null (NoTime), or the Date of the string. Without the seconds
\* the destructuring of line 217 leaves second undefined, Number.isNaN(undefined)
\* is false, and line 219 returns a Date whose time value is NaN
parseEventTime(str) ==
    IF str.kind = "empty" THEN NoTime
    ELSE IF str.kind = "partial" THEN InvalidDate
    ELSE ((str.hour * 60 + str.minute) * 60 + str.second) * 1000

\* a.__t - b.__t as the sort reads it: NaN counts as 0
CompareTimes(a, b) == IF a = InvalidDate \/ b = InvalidDate THEN 0 ELSE a - b

\* every element is placed after the elements the comparator puts before it
InComparatorOrder(seq) ==
    \A i, j \in 1..Len(seq) : i < j => CompareTimes(seq[i].t, seq[j].t) <= 0

\* mutant of RoomKey: the roomId is not consulted
RoomKeyNameOnly(evt) == IF evt.roomName # "" THEN evt.roomName ELSE "Unknown"

\* line 225
RoomKey(evt) ==
    IF evt.roomName # "" THEN evt.roomName
    ELSE IF evt.roomId # "" THEN evt.roomId
    ELSE "Unknown"

\* Array.prototype.sort with the comparator a.key - b.key: stable, ascending.
\* The element at index i goes to the place that counts the elements with a
\* smaller key and the earlier elements with the same key.
StableSort(seq, key) ==
    LET n == Len(seq)
        place == [i \in 1..n |->
                    Cardinality({j \in 1..n :
                        key[j] < key[i] \/ (key[j] = key[i] /\ j < i)}) + 1] \o <<>>
    IN  [q \in 1..n |-> seq[CHOOSE i \in 1..n : place[i] = q]]

\* the same with the comparator b.key - a.key
StableSortDesc(seq, key) == StableSort(seq, [i \in 1..Len(seq) |-> 0 - key[i]])

\* Math.round of num / den for num >= 0, den > 0
RoundRatio(num, den) == (2 * num + den) \div (2 * den)

Max(a, b) == IF a > b THEN a ELSE b

\* the distinct non-empty entries of seq, in the order of their first occurrence
\* (the key order of a Map or Set filled from seq)
InsertionOrder(seq) ==
    LET firsts == {i \in 1..Len(seq) :
                      seq[i] # "" /\ \A j \in 1..(i - 1) : seq[j] # seq[i]}
        nth(k) == CHOOSE i \in firsts : Cardinality({j \in firsts : j < i}) = k - 1
    IN  [k \in 1..Cardinality(firsts) |-> seq[nth(k)]]

\* lines 223-228
GroupByRoom(evts) ==
    LET rooms == InsertionOrder([i \in 1..Len(evts) |-> RoomKey(evts[i])])
    IN  [k \in 1..Len(rooms) |->
            [room |-> rooms[k],
             evts |-> SelectSeq(evts, LAMBDA e : RoomKey(e) = rooms[k])]]

\* lines 233-236. An array that is already in the order of its comparator is
\* left as it is by the sort; the other arrays tried hold no invalid Date, and
\* their comparator is the order of the instants
SortedValid(roomEvents) ==
    LET withT == [i \in 1..Len(roomEvents) |->
                    [evt |-> roomEvents[i], t |-> parseEventTime(roomEvents[i].time)]]
        valid == SelectSeq(withT, LAMBDA e : e.t # NoTime)
    IN  IF InComparatorOrder(valid) THEN valid
        ELSE StableSort(valid, [i \in 1..Len(valid) |-> valid[i].t])

\* every element is followed by one the comparator does not put before it
InNeighbourOrder(seq) ==
    \A i \in 1..(Len(seq) - 1) : CompareTimes(seq[i].t, seq[i + 1].t) <= 0

\* lines 233-236, every array the sort may leave. With an invalid Date in an
\* array that is not in the order of the comparator, the comparator (NaN read as
\* 0) is not a consistent order and the result depends on the engine: a sort
\* that looks for ascending runs, or inserts from the right, compares
\* neighbours only and leaves an array in neighbour order as it is; another may
\* put the instants in order, the invalid Dates before them
SortOutcomes(roomEvents) ==
    LET withT == [i \in 1..Len(roomEvents) |->
                    [evt |-> roomEvents[i], t |-> parseEventTime(roomEvents[i].time)]]
        valid == SelectSeq(withT, LAMBDA e : e.t # NoTime)
    IN  IF InComparatorOrder(valid) \/ \A i \in 1..Len(valid) : valid[i].t # InvalidDate
        THEN {SortedValid(roomEvents)}
        ELSE {StableSort(valid, [i \in 1..Len(valid) |-> valid[i].t]) \o <<>>}
             \cup (IF InNeighbourOrder(valid) THEN {valid} ELSE {})

\* the keys of byUser (and the members of userSet) in insertion order, lines
\* 259-272: per event the attacker, then the victim
FirstSeen(cl) ==
    InsertionOrder([k \in 1..(2 * Len(cl)) |->
                      IF k % 2 = 1 THEN cl[(k + 1) \div 2].evt.attacker
                      ELSE cl[k \div 2].evt.victim])

\* mutant of Participants: the victim is counted only in events that name an
\* attacker
ParticipantsNested(cl) ==
    LET order == FirstSeen(cl)
        stat(x) ==
            LET attacks == Cardinality({i \in 1..Len(cl) : cl[i].evt.attacker = x})
                hitsTaken == Cardinality({i \in 1..Len(cl) :
                                            /\ cl[i].evt.victim = x
                                            /\ cl[i].evt.attacker # ""})
            IN  [user |-> x, attacks |-> attacks, hitsTaken |-> hitsTaken,
                 ratio |-> safeRatio(attacks, hitsTaken)]
        stats == [i \in 1..Len(order) |-> stat(order[i])]
    IN  StableSortDesc(stats, [i \in 1..Len(stats) |-> stats[i].attacks + stats[i].hitsTaken])

\* lines 256-277
Participants(cl) ==
    LET order == FirstSeen(cl)
        stat(x) ==
            LET attacks == Cardinality({i \in 1..Len(cl) : cl[i].evt.attacker = x})
                hitsTaken == Cardinality({i \in 1..Len(cl) : cl[i].evt.victim = x})
            IN  [user |-> x, attacks |-> attacks, hitsTaken |-> hitsTaken,
                 ratio |-> safeRatio(attacks, hitsTaken)]
        stats == [i \in 1..Len(order) |-> stat(order[i])]
    IN  StableSortDesc(stats, [i \in 1..Len(stats) |-> stats[i].attacks + stats[i].hitsTaken])

FirstN(seq, n) == SubSeq(seq, 1, Min(n, Len(seq)))

\* lines 279-283
TopAttackers(participants) ==
    LET some == SelectSeq(participants, LAMBDA q : q.attacks > 0)
        best == FirstN(StableSortDesc(some, [i \in 1..Len(some) |-> some[i].attacks]), 3)
    IN  [i \in 1..Len(best) |-> [user |-> best[i].user, attacks |-> best[i].attacks]]

\* lines 285-289
TopVictims(participants) ==
    LET some == SelectSeq(participants, LAMBDA q : q.hitsTaken > 0)
        best == FirstN(StableSortDesc(some, [i \in 1..Len(some) |-> some[i].hitsTaken]), 3)
    IN  [i \in 1..Len(best) |-> [user |-> best[i].user, hitsTaken |-> best[i].hitsTaken]]

\* mutant of MakeBattle: the Math.max(1, ...) of line 254 is left out
MakeBattleUnclamped(roomName, counter, cl) ==
    LET start == cl[1].t
        end == cl[Len(cl)].t
        participants == Participants(cl)
    IN  [id |-> <<roomName, counter>>,
         roomName |-> roomName,
         start |-> start,
         end |-> end,
         durationMinutes |-> RoundRatio(end - start, 60000),
         hitCount |-> Len(cl),
         uniqueUsers |-> Len(FirstSeen(cl)),
         topAttackers |-> TopAttackers(participants),
         topVictims |-> TopVictims(participants),
         participants |-> participants]

\* lines 252-302: the Battle flush pushes for the cluster cl
MakeBattle(roomName, counter, cl) ==
    LET start == cl[1].t
        end == cl[Len(cl)].t
        participants == Participants(cl)
    IN  [id |-> <<roomName, counter>>,
         roomName |-> roomName,
         start |-> start,
         end |-> end,
         durationMinutes |-> Max(1, RoundRatio(end - start, 60000)),
         hitCount |-> Len(cl),
         uniqueUsers |-> Len(FirstSeen(cl)),
         topAttackers |-> TopAttackers(participants),
         topVictims |-> TopVictims(participants),
         participants |-> participants]

\* mutant of FlushEmits: a cluster one short of BATTLE_MIN_HITS passes too
FlushEmitsOffByOne(cl) == Len(cl) # 0 /\ ~(Len(cl) < BATTLE_MIN_HITS - 1)

\* lines 245-250: does flush push a battle for the cluster cl
FlushEmits(cl) == Len(cl) # 0 /\ ~(Len(cl) < BATTLE_MIN_HITS)

\* lines 294-295: toISOString throws a RangeError on a Date whose time value is
\* NaN, before the battle is pushed
FlushThrows(cl) ==
    FlushEmits(cl) /\ (cl[1].t = InvalidDate \/ cl[Len(cl)].t = InvalidDate)

\* lines 244-305: flush(), on battles, roomCounter and the history
Flush(cl) ==
    /\ battles' = IF FlushEmits(cl) /\ ~FlushThrows(cl)
                  THEN Append(battles, MakeBattle(byRoom[roomIdx].room, roomCounter, cl))
                  ELSE battles
    /\ roomCounter' = IF FlushEmits(cl) THEN roomCounter + 1 ELSE roomCounter
    /\ clusterLog' = IF cl = <<>> THEN clusterLog
                     ELSE Append(clusterLog,
                            [room |-> byRoom[roomIdx].room, size |-> Len(cl),
                             first |-> cl[1].t, last |-> cl[Len(cl)].t,
                             emitted |-> Len(battles') > Len(battles)])

\* ------------------------------------------------------------------ inputs of detectBattles
TimeString(secs) ==
    [kind |-> "ok", hour |-> secs \div 3600, minute |-> (secs % 3600) \div 60,
     second |-> secs % 60]

NoTimeString == [kind |-> "empty", hour |-> 0, minute |-> 0, second |-> 0]

\* 10:00:00
FirstHit == 10 * 3600

BattleUsers == <<"A", "B", "C">>

\* who hits whom in hit i of a run: the first five hits are D's, who is never
\* hit, every tenth hit lands on E, who never hits, and the others go round
\* A, B and C
BattleAttacker(i) == IF i <= 5 THEN "D" ELSE BattleUsers[(i % 3) + 1]

BattleVictim(i) == IF i % 10 = 0 THEN "E" ELSE BattleUsers[((i + 1) % 3) + 1]

\* a room with a name, and a room that only has an id
RoomChoices == {[roomName |-> "Lobby", roomId |-> "1"], [roomName |-> "", roomId |-> "7"]}

SegmentSizes == {1, BATTLE_MIN_HITS - 1, BATTLE_MIN_HITS, BATTLE_MIN_HITS + 5}

SegmentSpacings == {0, 30}

SegmentGaps == {BATTLE_MAX_GAP_SECONDS, BATTLE_MAX_GAP_SECONDS + 1, 180}

\* a run of size hits of one room, spacing seconds apart, that starts gap seconds
\* after the last timed hit before it
TimedSegments == [room : RoomChoices, size : SegmentSizes, spacing : SegmentSpacings,
                  gap : SegmentGaps, timed : {"ok"}]

\* a single hit whose time string is missing
UntimedSegments == [room : RoomChoices, size : {1}, spacing : {0},
                    gap : {BATTLE_MAX_GAP_SECONDS}, timed : {"empty"}]

\* a run whose second hit (its only hit when it has one) has a time string
\* without the seconds
PartialSegments == [room : RoomChoices, size : {1, BATTLE_MIN_HITS + 5}, spacing : {30},
                    gap : {BATTLE_MAX_GAP_SECONDS}, timed : {"partial"}]

Segments == TimedSegments \cup UntimedSegments \cup PartialSegments

\* the time string of hit i of the run g that starts at second from
HitTime(g, i, from) ==
    IF g.timed = "empty" THEN NoTimeString
    ELSE IF g.timed = "partial" /\ i = Min(2, g.size)
    THEN [TimeString(from + (i - 1) * g.spacing) EXCEPT !.kind = "partial"]
    ELSE TimeString(from + (i - 1) * g.spacing)

\* the segments longer lists are made of: no run above the minimum, hits 30 s
\* apart, the gap at the limit or one second over it
PlainSegments ==
    {g \in TimedSegments :
        /\ g.size <= BATTLE_MIN_HITS
        /\ g.spacing = 30
        /\ g.gap <= BATTLE_MAX_GAP_SECONDS + 1}

RECURSIVE SegmentEvents(_, _)
\* the hits of the segments segs, the first of them starting at second from
SegmentEvents(segs, from) ==
    IF segs = <<>> THEN <<>>
    ELSE LET g == Head(segs)
             run0 == [i \in 1..g.size |->
                        [time |-> HitTime(g, i, from),
                         attacker |-> BattleAttacker(i),
                         victim |-> BattleVictim(i),
                         roomName |-> g.room.roomName,
                         roomId |-> g.room.roomId]]
             last == IF g.size = 1 /\ g.timed # "ok" THEN from - g.gap
                     ELSE from + (g.size - 1) * g.spacing
         IN  run0 \o (IF Tail(segs) = <<>> THEN <<>>
                      ELSE SegmentEvents(Tail(segs), last + Head(Tail(segs)).gap))

Reverse(seq) == [i \in 1..Len(seq) |-> seq[Len(seq) + 1 - i]]

\* n hits of room, spacing seconds apart from second from on
RunOfHits(room, n, spacing, from) ==
    [i \in 1..n |->
        [time |-> TimeString(from + (i - 1) * spacing),
         attacker |-> BattleAttacker(i),
         victim |-> BattleVictim(i),
         roomName |-> room.roomName,
         roomId |-> room.roomId]]

\* a run from 10:30:00 on, a hit whose time string lacks the seconds, and a run
\* from 10:00:00 on, in this order: every hit is followed by one the comparator
\* of line 236 does not put before it, yet the first run is the later one
DisorderedLists ==
    {RunOfHits(room, BATTLE_MIN_HITS, spacing, FirstHit + 1800)
        \o <<[RunOfHits(room, 1, 0, FirstHit + 900)[1] EXCEPT !.time.kind = "partial"]>>
        \o RunOfHits(room, BATTLE_MIN_HITS, spacing, FirstHit) :
     room \in RoomChoices, spacing \in SegmentSpacings}

\* an event that names no room
NoRoom == [roomName |-> "", roomId |-> ""]

\* the events of a and b in turn, a's first (a and b of one length)
Interleave(a, b) ==
    [i \in 1..(2 * Len(a)) |-> IF i % 2 = 1 THEN a[(i + 1) \div 2] ELSE b[i \div 2]]

InterleavedSpacings == {100, 200}

\* two rooms hit in turn: the hits of each room are spacing seconds apart, and
\* every hit of one room falls halfway between two hits of the other
InterleavedLists ==
    {Interleave(RunOfHits(room, BATTLE_MIN_HITS, spacing, FirstHit),
                RunOfHits(NoRoom, BATTLE_MIN_HITS, spacing, FirstHit + spacing \div 2)) :
     room \in RoomChoices, spacing \in InterleavedSpacings}

\* a run above the minimum, 30 s apart, whose seventh hit names no attacker,
\* whose eighth names no victim and whose ninth names neither
NamelessLists ==
    {[i \in 1..(BATTLE_MIN_HITS + 5) |->
        [RunOfHits(room, BATTLE_MIN_HITS + 5, 30, FirstHit)[i] EXCEPT
            !.attacker = IF i \in {7, 9} THEN "" ELSE @,
            !.victim = IF i \in {8, 9} THEN "" ELSE @]] :
     room \in RoomChoices}

\* the event lists tried: one or two segments of any kind, and up to
\* MaxSegments plain segments; oldest hit first, and newest hit first when every
\* time string is complete or missing; and the lists of DisorderedLists, of
\* InterleavedLists and of NamelessLists
HitLists ==
    LET lists == {SegmentEvents(segs, FirstHit) :
                    segs \in SeqsUpTo(Segments, 2) \cup SeqsUpTo(PlainSegments, MaxSegments)}
        whole == {l \in lists : \A i \in 1..Len(l) : l[i].time.kind # "partial"}
    IN  lists \cup {Reverse(l) : l \in whole} \cup DisorderedLists \cup InterleavedLists
              \cup NamelessLists

\* inferTeamsWithBFS is not running
InferIdle ==
    /\ events = <<>>
    /\ seedTeams = <<>>
    /\ run = 1
    /\ firstResult = <<>>
    /\ pc = "idle"
    /\ adj = EmptyAdj
    /\ allUsers = {}
    /\ teamOf = [x \in Users |-> NoTeam]
    /\ inferenceSource = [x \in Users |-> NoSource]
    /\ confidence = [x \in Users |-> NoConf]
    /\ conflicts = <<>>
    /\ evidence = [x \in Users |-> EmptyTally]
    /\ evOrder = <<>>
    /\ queue = <<>>
    /\ visited = {}
    /\ u = NoUser
    /\ idx = 0
    /\ firstFrom = [x \in Users |-> NoUser]
    /\ dequeued = <<>>
    /\ visits = <<>>

InitBattles ==
    /\ InferIdle
    /\ hits \in HitLists
    /\ bpc = "partition"
    /\ byRoom = <<>>
    /\ roomIdx = 0
    /\ sorted = <<>>
    /\ pos = 0
    /\ cluster = <<>>
    /\ prev = NoTime
    /\ roomCounter = 0
    /\ battles = <<>>
    /\ clusterLog = <<>>

\* ------------------------------------------------------------------ actions of detectBattles
\* lines 223-230
PartitionByRoom ==
    /\ bpc = "partition"
    /\ byRoom' = GroupByRoom(hits)
    /\ roomIdx' = 0
    /\ bpc' = "rooms"
    /\ UNCHANGED <<inferVars, hits, sorted, pos, cluster, prev, roomCounter, battles,
                  clusterLog>>

\* line 238: sorted.length is not 0, that is some event of the room passes the
\* filter of line 235
HasValidEvents(roomEvents) ==
    {i \in 1..Len(roomEvents) : parseEventTime(roomEvents[i].time) # NoTime} # {}

\* lines 232-242: the next room has events with a time
StartRoom ==
    /\ bpc = "rooms"
    /\ roomIdx < Len(byRoom)
    /\ HasValidEvents(byRoom[roomIdx + 1].evts)
    /\ roomIdx' = roomIdx + 1
    /\ sorted' \in SortOutcomes(byRoom[roomIdx + 1].evts)
    /\ pos' = 1
    /\ cluster' = <<>>
    /\ prev' = NoTime
    /\ roomCounter' = 1
    /\ bpc' = "sweep"
    /\ UNCHANGED <<inferVars, hits, byRoom, battles, clusterLog>>

\* line 238: the next room has none
SkipRoom ==
    /\ bpc = "rooms"
    /\ roomIdx < Len(byRoom)
    /\ ~HasValidEvents(byRoom[roomIdx + 1].evts)
    /\ roomIdx' = roomIdx + 1
    /\ UNCHANGED <<inferVars, hits, bpc, byRoom, sorted, pos, cluster, prev, roomCounter,
                  battles, clusterLog>>

\* lines 308-312
SweepFirst ==
    /\ bpc = "sweep"
    /\ pos <= Len(sorted)
    /\ prev = NoTime
    /\ cluster' = Append(cluster, sorted[pos])
    /\ prev' = sorted[pos].t
    /\ pos' = pos + 1
    /\ UNCHANGED <<inferVars, hits, bpc, byRoom, roomIdx, sorted, roomCounter, battles,
                  clusterLog>>

\* mutant of WithinGap: the division by 1000 of line 313 is left out
WithinGapMillis(t, p) ==
    /\ t # InvalidDate
    /\ p # InvalidDate
    /\ t - p <= BATTLE_MAX_GAP_SECONDS

\* lines 313-314: gapSeconds <= BATTLE_MAX_GAP_SECONDS for the event at instant t
\* after the one at instant p; with an invalid Date gapSeconds is NaN and the
\* comparison is false
WithinGap(t, p) ==
    /\ t # InvalidDate
    /\ p # InvalidDate
    /\ t - p <= BATTLE_MAX_GAP_SECONDS * 1000

\* lines 313-315 and 320
SweepAppend ==
    /\ bpc = "sweep"
    /\ pos <= Len(sorted)
    /\ prev # NoTime
    /\ WithinGap(sorted[pos].t, prev)
    /\ cluster' = Append(cluster, sorted[pos])
    /\ prev' = sorted[pos].t
    /\ pos' = pos + 1
    /\ UNCHANGED <<inferVars, hits, bpc, byRoom, roomIdx, sorted, roomCounter, battles,
                  clusterLog>>

\* lines 316-320
SweepSplit ==
    /\ bpc = "sweep"
    /\ pos <= Len(sorted)
    /\ prev # NoTime
    /\ ~WithinGap(sorted[pos].t, prev)
    /\ Flush(cluster)
    /\ cluster' = <<sorted[pos]>>
    /\ prev' = sorted[pos].t
    /\ pos' = pos + 1
    /\ bpc' = IF FlushThrows(cluster) THEN "threw" ELSE bpc
    /\ UNCHANGED <<inferVars, hits, byRoom, roomIdx, sorted>>

\* line 323: the flush after the last event of the room
FinishRoom ==
    /\ bpc = "sweep"
    /\ pos > Len(sorted)
    /\ Flush(cluster)
    /\ cluster' = <<>>
    /\ bpc' = IF FlushThrows(cluster) THEN "threw" ELSE "rooms"
    /\ UNCHANGED <<inferVars, hits, byRoom, roomIdx, sorted, pos, prev>>

\* mutant of ReturnBattles: the comparator of line 326 with a and b exchanged
ReturnBattlesAscending ==
    /\ bpc = "rooms"
    /\ roomIdx = Len(byRoom)
    /\ battles' = StableSort(battles, [i \in 1..Len(battles) |-> battles[i].start])
    /\ bpc' = "done"
    /\ UNCHANGED <<inferVars, hits, byRoom, roomIdx, sorted, pos, cluster, prev,
                  roomCounter, clusterLog>>

\* line 326
ReturnBattles ==
    /\ bpc = "rooms"
    /\ roomIdx = Len(byRoom)
    /\ battles' = StableSortDesc(battles, [i \in 1..Len(battles) |-> battles[i].start])
    /\ bpc' = "done"
    /\ UNCHANGED <<inferVars, hits, byRoom, roomIdx, sorted, pos, cluster, prev,
                  roomCounter, clusterLog>>

NextBattles ==
    \/ PartitionByRoom
    \/ StartRoom
    \/ SkipRoom
    \/ SweepFirst
    \/ SweepAppend
    \/ SweepSplit
    \/ FinishRoom
    \/ ReturnBattles

\* one call of detectBattles
SpecBattles == InitBattles /\ [][NextBattles]_vars

\* ------------------------------------------------------------------ reading the arguments
\* What the properties below say about the arguments is read off events and
\* seedTeams directly, not off the collections the function builds from them.

\* the value the seed map holds for x, NoTeam when x is not a key
SeedValue(x) ==
    IF \E i \in 1..Len(seedTeams) : seedTeams[i][1] = x
    THEN seedTeams[CHOOSE i \in 1..Len(seedTeams) : seedTeams[i][1] = x][2]
    ELSE NoTeam

IsSeeded(x) == SeedValue(x) \in RealTeams

SeededUsers == {x \in Users : IsSeeded(x)}

AppearsInEvents(x) ==
    \E i \in 1..Len(events) : events[i].attacker = x \/ events[i].victim = x

\* some event has x and y as its two ends
Linked(x, y) ==
    \E i \in 1..Len(events) :
        \/ events[i].attacker = x /\ events[i].victim = y
        \/ events[i].attacker = y /\ events[i].victim = x

RECURSIVE Within(_, _)
\* the users at most n hops from the set S
Within(S, n) ==
    IF n = 0 THEN S
    ELSE LET W == Within(S, n - 1)
         IN  W \cup {y \in Users : \E x \in W : Linked(x, y)}

HasPathToSeed(x) == x \in Within(SeededUsers, Cardinality(Users))

IsEdgeConflict(c) == c.user2 # Null

IsSelfContradiction(c) == c.user2 = Null

\* ------------------------------------------------------------------ C1
\* C1: from the moment the seeds are stored, at every step of the propagation and
\* in the result, every user whose seed value is Penguin or Reindeer has that
\* team, confidence 1.0 and source "seeded", whatever the edges say.
SeedImmutability ==
    pc \notin {"build", "seed"} =>
        \A x \in Users :
            IsSeeded(x) =>
                /\ teamOf[x] = SeedValue(x)
                /\ confidence[x] = 100
                /\ inferenceSource[x] = "seeded"

\* a seeded user whose edge to another user contradicts its seed team
SeedImmutabilityWitness ==
    /\ pc = "done"
    /\ \E i \in 1..Len(conflicts) :
        /\ IsEdgeConflict(conflicts[i])
        /\ conflicts[i].user1 # conflicts[i].user2
        /\ IsSeeded(conflicts[i].user2)
        /\ teamOf[conflicts[i].user2] = SeedValue(conflicts[i].user2)

\* ------------------------------------------------------------------ C2
\* C2: in the result every user that is a non-empty attacker or victim of some
\* event has a team, a confidence and a source; without a path to a seeded user
\* these are Unknown, 0 and "unknown", with such a path the team is not Unknown.
TotalCoverage ==
    pc = "done" =>
        LET reached == Within(SeededUsers, Cardinality(Users))
        IN  \A x \in Users :
                AppearsInEvents(x) =>
                    /\ teamOf[x] # NoTeam
                    /\ confidence[x] # NoConf
                    /\ inferenceSource[x] # NoSource
                    /\ x \notin reached =>
                            /\ teamOf[x] = "Unknown"
                            /\ confidence[x] = 0
                            /\ inferenceSource[x] = "unknown"
                    /\ x \in reached => teamOf[x] # "Unknown"

\* one user reached over two hops and one user without any path to the seed
TotalCoverageWitness ==
    /\ pc = "done"
    /\ \E x, y \in Users :
        /\ AppearsInEvents(x) /\ ~HasPathToSeed(x) /\ teamOf[x] = "Unknown"
        /\ AppearsInEvents(y) /\ HasPathToSeed(y) /\ ~IsSeeded(y)
        /\ teamOf[y] \in RealTeams

\* ------------------------------------------------------------------ C3
\* the for loop is at an edge whose other end already holds the team of u
AtSameTeamEdge ==
    /\ pc = "bfs"
    /\ u # NoUser
    /\ teamOf[adj[u][idx].v] = teamOf[u]

IsPrefix(s, t) == Len(s) <= Len(t) /\ \A i \in 1..Len(s) : s[i] = t[i]

\* C3: no step changes the team or the source of a user that has a team; the
\* conflicts list only grows; a step at a same-team edge appends one Conflict
\* naming the two ends and changes no assignment, tally or queue.
FirstAssignmentWins ==
    [][/\ \A x \in Users :
            teamOf[x] # NoTeam =>
                /\ teamOf'[x] = teamOf[x]
                /\ inferenceSource'[x] = inferenceSource[x]
       /\ IsPrefix(conflicts, conflicts')
       /\ AtSameTeamEdge =>
            /\ Len(conflicts') = Len(conflicts) + 1
            /\ conflicts'[Len(conflicts')].user1 = u
            /\ conflicts'[Len(conflicts')].user2 = adj[u][idx].v
            /\ UNCHANGED <<teamOf, inferenceSource, evidence, queue, visited>>]_vars

\* an inferred user met again over a same-team edge, after another conflict
FirstAssignmentWinsWitness ==
    /\ pc = "done"
    /\ Len(conflicts) >= 2
    /\ \E i \in 1..Len(conflicts) :
        /\ conflicts[i].source2 = "inferred"
        /\ conflicts[i].user1 # conflicts[i].user2
        /\ teamOf[conflicts[i].user2] = conflicts[i].team2

\* ------------------------------------------------------------------ C4
\* C4: in the result every inferred user v holds the real team opposite to the
\* team of the user that was being dequeued when v was first assigned, and the
\* two are the ends of an event.
OppositeTeamPropagation ==
    pc = "done" =>
        \A v \in Users :
            inferenceSource[v] = "inferred" =>
                /\ firstFrom[v] # NoUser
                /\ Linked(firstFrom[v], v)
                /\ teamOf[v] \in RealTeams
                /\ teamOf[firstFrom[v]] \in RealTeams
                /\ teamOf[v] # teamOf[firstFrom[v]]

\* a user inferred from a user that was itself inferred
OppositeTeamPropagationWitness ==
    /\ pc = "done"
    /\ \E v \in Users :
        /\ inferenceSource[v] = "inferred"
        /\ inferenceSource[firstFrom[v]] = "inferred"

\* ------------------------------------------------------------------ C5
VotesFor(x, team) ==
    IF team = "Penguin" THEN evidence[x].penguinVotes ELSE evidence[x].reindeerVotes

OtherTeam(team) == IF team = "Penguin" THEN "Reindeer" ELSE "Penguin"

\* the self-contradiction records about x
SelfRecords(x) ==
    {i \in 1..Len(conflicts) : IsSelfContradiction(conflicts[i]) /\ conflicts[i].user1 = x}

VotesOnlyForOwnTeam ==
    \A x \in Users :
        /\ teamOf[x] = "Penguin" => evidence[x].reindeerVotes = 0
        /\ teamOf[x] = "Reindeer" => evidence[x].penguinVotes = 0
        /\ teamOf[x] \notin RealTeams => evidence[x] = EmptyTally

\* ------------------------------------------------------------------ C6
\* C6: every confidence the function stores, at any step and in the result, is
\* between 0 and 1 (0 and 100 hundredths).
ConfidenceBounds ==
    \A x \in Users :
        confidence[x] # NoConf => confidence[x] >= 0 /\ confidence[x] <= 100

\* an inferred user with more than 20 votes, from two users voting for it
ConfidenceBoundsWitness ==
    /\ pc = "done"
    /\ Cardinality(SeededUsers) = 2
    /\ \E x \in Users :
        /\ inferenceSource[x] = "inferred"
        /\ evidence[x].penguinVotes + evidence[x].reindeerVotes > 20
        /\ confidence[x] = 100

NeighboursOf(x) == {y \in Users : Linked(x, y)}

EventUsers == {x \in Users : AppearsInEvents(x)}

EdgeCount == Cardinality({e \in SUBSET Users : \E x, y \in e : e = {x, y} /\ Linked(x, y)})

IsChainFromSeed(a) ==
    /\ SeededUsers = {a}
    /\ events # <<>>
    /\ \A i \in 1..Len(events) : events[i] \in WellFormedEvents
    /\ \A x \in Users : ~Linked(x, x)
    /\ Cardinality(NeighboursOf(a)) = 1
    /\ \A x \in EventUsers : Cardinality(NeighboursOf(x)) <= 2 /\ HasPathToSeed(x)
    /\ EdgeCount = Cardinality(EventUsers) - 1

\* hop distance from the seeded user a
Hops(a, x) == CHOOSE n \in 0..Cardinality(Users) :
                /\ x \in Within({a}, n)
                /\ \A m \in 0..(n - 1) : x \notin Within({a}, m)

\* C8: when the events form a simple path from the single seeded user, the
\* seeded user keeps its team with confidence 1.0, every user on the path is
\* inferred with the seed's team at an even hop count and the opposite team at
\* an odd one, and no conflict is returned.
ChainScenario ==
    pc = "done" =>
        \A a \in Users :
            IsChainFromSeed(a) =>
                /\ teamOf[a] = SeedValue(a)
                /\ inferenceSource[a] = "seeded"
                /\ confidence[a] = 100
                /\ \A x \in EventUsers \ {a} :
                    /\ inferenceSource[x] = "inferred"
                    /\ teamOf[x] = IF Hops(a, x) % 2 = 0 THEN SeedValue(a)
                                   ELSE opposite(SeedValue(a))
                /\ conflicts = <<>>

\* the scenario of the specification: A hits B, B hits C, A seeded Penguin
ChainScenarioWitness ==
    /\ pc = "done"
    /\ events = <<[attacker |-> "A", victim |-> "B"], [attacker |-> "B", victim |-> "C"]>>
    /\ seedTeams = <<<<"A", "Penguin">>>>
    /\ IsChainFromSeed("A")
    /\ teamOf = [A |-> "Penguin", B |-> "Reindeer", C |-> "Penguin"]

\* ------------------------------------------------------------------ C9
\* C9: when the seed map holds no Penguin or Reindeer value, the call runs to its
\* return without getting stuck, and returns Unknown, 0 and "unknown" for every
\* user of the events, no entry for anybody else, and no conflict.
NoSeeds ==
    SeededUsers = {} =>
        /\ pc # "done" => ENABLED Next
        /\ pc = "done" =>
            /\ conflicts = <<>>
            /\ \A x \in Users :
                IF AppearsInEvents(x)
                THEN /\ teamOf[x] = "Unknown"
                     /\ confidence[x] = 0
                     /\ inferenceSource[x] = "unknown"
                ELSE /\ teamOf[x] = NoTeam
                     /\ confidence[x] = NoConf
                     /\ inferenceSource[x] = NoSource

\* a seed map whose one entry names no real team, a self-hit (an odd cycle) and
\* an edge between two users
NoSeedsWitness ==
    /\ pc = "done"
    /\ seedTeams # <<>>
    /\ SeededUsers = {}
    /\ AppearsInEvents(seedTeams[1][1])
    /\ \E x \in Users : Linked(x, x)
    /\ \E x, y \in Users : x # y /\ Linked(x, y)

\* ------------------------------------------------------------------ C10
\* the hits of room whose time parses to an instant between from and to
HitsBetween(room, from, to) ==
    {i \in 1..Len(hits) :
        /\ RoomKey(hits[i]) = room
        /\ parseEventTime(hits[i].time) \notin {NoTime, InvalidDate}
        /\ parseEventTime(hits[i].time) >= from
        /\ parseEventTime(hits[i].time) <= to}

\* C10: every battle pushed or returned has hitCount >= BATTLE_MIN_HITS (30), and
\* its hitCount is the number of hits of its room between its start and its end,
\* the events of its cluster; every cluster handed to flush with 30 or more
\* events became a battle with that hitCount, and none with fewer did.
BattleMinimumSize ==
    /\ \A i \in 1..Len(battles) :
        /\ battles[i].hitCount >= BATTLE_MIN_HITS
        /\ battles[i].hitCount =
             Cardinality(HitsBetween(battles[i].roomName, battles[i].start, battles[i].end))
    /\ \A k \in 1..Len(clusterLog) :
        LET c == clusterLog[k]
        IN  /\ c.size = IF c.first = InvalidDate THEN 1
                         ELSE Cardinality(HitsBetween(c.room, c.first, c.last))
            /\ c.emitted <=> c.size >= BATTLE_MIN_HITS
            /\ c.emitted =>
                \E i \in 1..Len(battles) :
                    /\ battles[i].roomName = c.room
                    /\ battles[i].start = c.first
                    /\ battles[i].hitCount = c.size

\* one call met a cluster of exactly 30 hits, emitted, and one of 29, discarded
BattleMinimumSizeWitness ==
    /\ bpc = "done"
    /\ Len(battles) = 1
    /\ battles[1].hitCount = BATTLE_MIN_HITS
    /\ \E k \in 1..Len(clusterLog) :
        clusterLog[k].size = BATTLE_MIN_HITS - 1 /\ ~clusterLog[k].emitted
    /\ \E k \in 1..Len(clusterLog) :
        clusterLog[k].size = BATTLE_MIN_HITS /\ clusterLog[k].emitted

\* ------------------------------------------------------------------ C11
\* the instants of the hits of room whose time string has all six components
ValidTimes(room) ==
    {parseEventTime(hits[i].time) :
        i \in {j \in 1..Len(hits) :
                 /\ RoomKey(hits[j]) = room
                 /\ hits[j].time.kind = "ok"}}

\* C11: for every battle, each hit of its room from its start up to its end is
\* followed within BATTLE_MAX_GAP_SECONDS (120 s, the limit included) by the next
\* hit of the room, and every hit of the room before its start or after its end
\* is more than BATTLE_MAX_GAP_SECONDS away from it.
BattleGapInvariant ==
    \A k \in 1..Len(battles) :
        LET b == battles[k]
            T == ValidTimes(b.roomName)
        IN  /\ \A t \in T :
                    (b.start <= t /\ t < b.end) =>
                        \E t2 \in T :
                            /\ t < t2
                            /\ t2 <= b.end
                            /\ t2 - t <= BATTLE_MAX_GAP_SECONDS * 1000
            /\ \A t \in T :
                    t < b.start => b.start - t > BATTLE_MAX_GAP_SECONDS * 1000
            /\ \A t \in T :
                    t > b.end => t - b.end > BATTLE_MAX_GAP_SECONDS * 1000

\* ------------------------------------------------------------------ C12
\* the hits are those of one room, 35 of them 30 s apart from 10:00:00 on and
\* one at 10:20:00, in any order
IsBattleScenario ==
    /\ Len(hits) = 36
    /\ \A i \in 1..Len(hits) :
        hits[i].time.kind = "ok" /\ RoomKey(hits[i]) = RoomKey(hits[1])
    /\ ValidTimes(RoomKey(hits[1])) =
         {(FirstHit + 30 * (i - 1)) * 1000 : i \in 1..35} \cup {(FirstHit + 20 * 60) * 1000}

\* the cluster of the lone hit at 10:20:00 was handed to flush and discarded
LoneHitDiscarded ==
    \E k \in 1..Len(clusterLog) :
        /\ clusterLog[k].size = 1
        /\ clusterLog[k].first = (FirstHit + 20 * 60) * 1000
        /\ ~clusterLog[k].emitted

\* C12 as stated: for that input detectBattles returns exactly one battle, of
\* 35 hits and durationMinutes = 18, and the lone hit's cluster is discarded.
BattleScenarioEighteen ==
    (bpc = "done" /\ IsBattleScenario) =>
        /\ Len(battles) = 1
        /\ battles[1].hitCount = 35
        /\ battles[1].durationMinutes = 18
        /\ LoneHitDiscarded

\* C12 amended: for that input detectBattles returns exactly one battle, of 35
\* hits from 10:00:00 to 10:17:00 and durationMinutes = 17, and the lone hit's
\* cluster is discarded.
BattleScenario ==
    (bpc = "done" /\ IsBattleScenario) =>
        /\ Len(battles) = 1
        /\ battles[1].hitCount = 35
        /\ battles[1].start = FirstHit * 1000
        /\ battles[1].end = (FirstHit + 17 * 60) * 1000
        /\ battles[1].durationMinutes = 17
        /\ LoneHitDiscarded

\* the call on the scenario's input, newest hit first, has returned
BattleScenarioWitness ==
    /\ bpc = "done"
    /\ IsBattleScenario
    /\ hits[1].time = TimeString(FirstHit + 20 * 60)
    /\ Len(battles) = 1

\* ------------------------------------------------------------------ C13
\* C13: in the list detectBattles returns, no battle starts earlier than the
\* battle after it, whatever rooms the two are in.
OutputOrder ==
    bpc = "done" =>
        \A i \in 1..(Len(battles) - 1) : battles[i].start >= battles[i + 1].start

\* two battles of different rooms were pushed oldest first and are returned
\* newest first
OutputOrderWitness ==
    /\ bpc = "done"
    /\ Len(battles) = 2
    /\ battles[1].roomName # battles[2].roomName
    /\ battles[1].start > battles[2].start
    /\ \E k, l \in 1..Len(clusterLog) :
        /\ k < l
        /\ clusterLog[k].emitted /\ clusterLog[k].first = battles[2].start
        /\ clusterLog[l].emitted /\ clusterLog[l].first = battles[1].start

\* ------------------------------------------------------------------ C14
\* C14: a participant of a battle that was never hit has its number of attacks
\* as ratio, a participant that was hit has attacks / hitsTaken, and no ratio
\* has a zero denominator (no Infinity, no NaN).
RatioEdgeCase ==
    \A k \in 1..Len(battles) :
        \A i \in 1..Len(battles[k].participants) :
            LET q == battles[k].participants[i]
            IN  /\ q.ratio[2] # 0
                /\ q.hitsTaken = 0 => q.ratio[1] = q.attacks * q.ratio[2]
                /\ q.hitsTaken > 0 => q.ratio[1] * q.hitsTaken = q.attacks * q.ratio[2]

\* a returned battle with a participant of 5 attacks that was never hit, ratio
\* 5, and a participant that never attacked, ratio 0
RatioEdgeCaseWitness ==
    /\ bpc = "done"
    /\ \E k \in 1..Len(battles) :
        /\ \E i \in 1..Len(battles[k].participants) :
            LET q == battles[k].participants[i]
            IN  q.attacks = 5 /\ q.hitsTaken = 0 /\ q.ratio = <<5, 1>>
        /\ \E i \in 1..Len(battles[k].participants) :
            LET q == battles[k].participants[i]
            IN  q.attacks = 0 /\ q.hitsTaken > 0 /\ q.ratio[1] = 0

\* ------------------------------------------------------------------ C15
\* the weight the events give the edge between x and y: one per event that has
\* the two as its ends, two per self-hit
Weight(x, y) ==
    LET n == Cardinality({i \in 1..Len(events) :
                            \/ events[i].attacker = x /\ events[i].victim = y
                            \/ events[i].attacker = y /\ events[i].victim = x})
    IN  IF x = y THEN 2 * n ELSE n

RECURSIVE SumWeights(_, _)
\* the sum of the weights of the edges between x and the users of S
SumWeights(x, S) ==
    IF S = {} THEN 0
    ELSE LET y == CHOOSE z \in S : TRUE
         IN  Weight(x, y) + SumWeights(x, S \ {y})

SeedOrder ==
    [i \in 1..Len(SeededEntries(seedTeams)) |-> SeededEntries(seedTeams)[i][1]] \o <<>>

\* the pairs of users some event has as its two ends
Links == {<<events[i].attacker, events[i].victim>> : i \in 1..Len(events)}

RECURSIVE HopsFrom(_, _, _, _)
\* n when x is in W, the users at most n hops from the seeded users; more than
\* the number of users when no path exists
HopsFrom(x, W, L, n) ==
    IF x \in W THEN n
    ELSE IF n >= Cardinality(Users) THEN Cardinality(Users) + 1
    ELSE HopsFrom(x, W \cup {y \in Users : \E z \in W : <<z, y>> \in L \/ <<y, z>> \in L},
                  L, n + 1)

\* the hop distance of x to the nearest seeded user
Dist(x) == HopsFrom(x, SeededUsers, Links, 0)

\* the place of x in the order of dequeuing; past the end when x was never dequeued
DequeuePlace(x) ==
    IF x \in Range(dequeued)
    THEN CHOOSE i \in 1..Len(dequeued) : dequeued[i] = x
    ELSE Len(dequeued) + 1

\* C16: users leave the queue in the order they entered it (the seeded users in
\* the order of the seed map, then the users in the order they were given a
\* team), hence in non-decreasing hop distance to the nearest seeded user; an
\* inferred user at distance d holds the opposite of the team of the first of
\* its neighbours to be dequeued, which is at distance d - 1. The order of
\* leaving is compared at every state; the distances are compared when the call
\* returns, dequeued and firstFrom then holding the whole history of the call.
ShortestHopPropagation ==
    /\ pc \notin {"build", "seed"} => dequeued \o queue = SeedOrder \o evOrder
    /\ pc = "done" =>
        /\ \A i \in 1..(Len(dequeued) - 1) : Dist(dequeued[i]) <= Dist(dequeued[i + 1])
        /\ \A x \in Users :
            inferenceSource[x] = "inferred" =>
                LET f == firstFrom[x]
                    d == Dist(x)
                IN  /\ f \in Range(dequeued)
                    /\ Linked(f, x)
                    /\ d >= 1
                    /\ Dist(f) = d - 1
                    /\ teamOf[x] = OtherTeam(teamOf[f])
                    /\ \A y \in NeighboursOf(x) : DequeuePlace(f) <= DequeuePlace(y)

\* the result has an inferred user two hops from the nearest seeded user, and
\* three users went through the queue
ShortestHopPropagationWitness ==
    /\ pc = "done"
    /\ Len(dequeued) >= 3
    /\ \E x \in Users :
        /\ inferenceSource[x] = "inferred"
        /\ Dist(x) = 2
        /\ Dist(firstFrom[x]) = 1

\* ------------------------------------------------------------------ C17
\* the two ends of the edge the k-th pass of the neighbour loop handled
EdgeOfVisit(k) == {visits[k][1], visits[k][2]}

\* C17 as stated: no undirected edge is handled by the neighbour loop twice.
EdgeVisitedOnce ==
    \A i, j \in 1..Len(visits) : i < j => EdgeOfVisit(i) # EdgeOfVisit(j)

\* C17 amended: the neighbour loop handles every entry of the adjacency map at
\* most once, that is an edge at most once from each of its ends: at most twice
\* when its ends differ, at most once when it is a self-loop. An edge with both
\* ends dequeued is handled from both. Repetition is looked for at every state;
\* the count per edge is taken when the call returns, visits then holding every
\* pass of the loop.
EdgeVisitedOncePerEnd ==
    /\ \A i, j \in 1..Len(visits) : i < j => visits[i] # visits[j]
    /\ pc = "done" =>
        /\ \A i \in 1..Len(visits) :
            /\ visits[i][1] \in Range(dequeued)
            /\ Linked(visits[i][1], visits[i][2])
        /\ \A x, y \in Users :
            Cardinality({i \in 1..Len(visits) : EdgeOfVisit(i) = {x, y}})
                <= IF x = y THEN 1 ELSE 2
        /\ \A x \in Range(dequeued) : \A y \in NeighboursOf(x) :
            \E i \in 1..Len(visits) : visits[i] = <<x, y>>

\* the result was reached with an edge handled from both of its ends, first as
\* the assignment of an unassigned user, and with a self-loop handled
EdgeVisitedOncePerEndWitness ==
    /\ pc = "done"
    /\ \E i, j \in 1..Len(visits) :
        /\ i < j
        /\ visits[i][1] # visits[i][2]
        /\ visits[j] = <<visits[i][2], visits[i][1]>>
        /\ firstFrom[visits[i][2]] = visits[i][1]
    /\ \E i \in 1..Len(visits) : visits[i][1] = visits[i][2]

\* ------------------------------------------------------------------ C18
\* every user that was ever put on the queue, in the order of leaving it and
\* then of waiting in it
EverQueued == dequeued \o queue

\* the while loop of line 128 has ended
LoopEnded == pc \in {"check", "done"}

\* C18: the loop ends, with an empty queue; no user is put on the queue or taken
\* from it twice; when the loop has ended every user with a team was dequeued
\* exactly once.
PropagationTerminates ==
    /\ [](\A i, j \in 1..Len(EverQueued) : i < j => EverQueued[i] # EverQueued[j])
    /\ [](LoopEnded =>
            /\ queue = <<>>
            /\ \A x \in Users :
                teamOf[x] \in RealTeams =>
                    Cardinality({i \in 1..Len(dequeued) : dequeued[i] = x}) = 1)
    /\ <>LoopEnded

\* the loop has ended after three users went through the queue, one of them
\* inferred, and after an agreement and a conflict were met
PropagationTerminatesWitness ==
    /\ pc = "check"
    /\ Len(dequeued) >= 3
    /\ conflicts # <<>>
    /\ \E x \in Users : inferenceSource[x] = "inferred"
    /\ Len(visits) > Len(conflicts) + Cardinality({x \in Users : firstFrom[x] # NoUser})

\* ------------------------------------------------------------------ C19
\* c, in hundredths, is 60 * |p - r| / total + 40 * min(total, 20) / 20 rounded
\* to a whole number: it is within one half of it, all terms times 2 * total
IsRoundedConfidence(c, p, r) ==
    LET total == p + r
        exact == 60 * Abs(p - r) + 2 * Min(total, 20) * total
    IN  /\ 2 * (c * total - exact) <= total
        /\ 2 * (exact - c * total) <= total

\* C19: in the result the confidence of an inferred user with tally (p, r) is
\* 0.6 * |p - r| / (p + r) + 0.4 * min(1, (p + r) / 20) rounded to two decimals,
\* and 0 for an empty tally.
ConfidenceFormula ==
    pc = "done" =>
        \A x \in Users :
            inferenceSource[x] = "inferred" =>
                LET p == evidence[x].penguinVotes
                    r == evidence[x].reindeerVotes
                IN  /\ confidence[x] # NoConf
                    /\ p + r = 0 => confidence[x] = 0
                    /\ p + r > 0 => IsRoundedConfidence(confidence[x], p, r)

\* the result has an inferred user with fewer than 20 votes, whose confidence is
\* below 1, and one with more than 20
ConfidenceFormulaWitness ==
    /\ pc = "done"
    /\ \E x, y \in Users :
        /\ inferenceSource[x] = "inferred"
        /\ inferenceSource[y] = "inferred"
        /\ evidence[x].penguinVotes + evidence[x].reindeerVotes \in 2..19
        /\ confidence[x] \in 61..99
        /\ evidence[y].penguinVotes + evidence[y].reindeerVotes > 20
        /\ confidence[y] = 100

\* ------------------------------------------------------------------ C20
\* the neighbours the adjacency map holds for x, each with its weight
AdjEntries(x) == {<<adj[x][k].v, adj[x][k].n>> : k \in 1..Len(adj[x])}

\* the users the event taken out before the second call names
RemovedUsers == {firstResult[2].attacker, firstResult[2].victim}

\* C20: when the loop of line 98 has ended the adjacency map holds the edges and
\* weights of the events that have both ends and nothing else, and a call
\* without one of the malformed events returns the same conflicts and, for every
\* user the event does not name, the same team, confidence and source; a user
\* the event names has the same three or, being named by no other event and not
\* seeded, is Unknown in the first result and absent from the second.
MalformedEventsSkipped ==
    /\ pc = "seed" =>
        \A x \in Users :
            AdjEntries(x) = {<<y, Weight(x, y)>> : y \in {z \in Users : Weight(x, z) > 0}}
    /\ (run = 2 /\ pc = "done") =>
        LET first == firstResult[1]
        IN  /\ conflicts = first.conflicts
            /\ \A x \in Users \ RemovedUsers :
                /\ teamOf[x] = first.teamMap[x]
                /\ confidence[x] = first.confidence[x]
                /\ inferenceSource[x] = first.inferenceSource[x]
            /\ \A x \in Users \cap RemovedUsers :
                \/ /\ teamOf[x] = first.teamMap[x]
                   /\ confidence[x] = first.confidence[x]
                   /\ inferenceSource[x] = first.inferenceSource[x]
                \/ /\ ~AppearsInEvents(x)
                   /\ ~IsSeeded(x)
                   /\ first.teamMap[x] = "Unknown"
                   /\ first.confidence[x] = 0
                   /\ first.inferenceSource[x] = "unknown"
                   /\ teamOf[x] = NoTeam
                   /\ confidence[x] = NoConf
                   /\ inferenceSource[x] = NoSource

\* both calls have returned; the first had a malformed event naming a seeded
\* user next to a hit that gave an inferred user its team
MalformedEventsSkippedWitness ==
    /\ run = 2
    /\ pc = "done"
    /\ \E x \in RemovedUsers \cap Users : inferenceSource[x] = "seeded"
    /\ \E y \in Users \ RemovedUsers :
        /\ inferenceSource[y] = "inferred"
        /\ confidence[y] > 0
        /\ firstResult[1].teamMap[y] = teamOf[y]

\* ------------------------------------------------------------------ C21
\* the hits whose time string has all six components
ParseableHits == {i \in 1..Len(hits) : hits[i].time.kind = "ok"}

RECURSIVE SumHitCount(_)
\* the sum of hitCount over the first n battles
SumHitCount(n) == IF n = 0 THEN 0 ELSE battles[n].hitCount + SumHitCount(n - 1)

\* the instants from to to of room are one maximal gap-cluster: each but the
\* last is followed within the limit by another of them, and every instant
\* outside is further than the limit from both ends
IsMaximalCluster(room, from, to) ==
    LET T == ValidTimes(room)
    IN  /\ from \in T
        /\ to \in T
        /\ \A t \in T :
            (from <= t /\ t < to) =>
                \E t2 \in T : t < t2 /\ t2 <= to
                              /\ t2 - t <= BATTLE_MAX_GAP_SECONDS * 1000
        /\ \A t \in T :
            \/ (from <= t /\ t <= to)
            \/ t < from - BATTLE_MAX_GAP_SECONDS * 1000
            \/ t > to + BATTLE_MAX_GAP_SECONDS * 1000

\* C21: the events of every battle are the events of one maximal gap-cluster of
\* its room, at least BATTLE_MIN_HITS of them, so that no event of a smaller
\* cluster is counted in a battle; no event is counted in two battles; the sum
\* of hitCount is at most the number of events with a parseable time.
SmallClustersDiscarded ==
    /\ \A k \in 1..Len(battles) :
        LET b == battles[k]
        IN  /\ IsMaximalCluster(b.roomName, b.start, b.end)
            /\ b.hitCount = Cardinality(HitsBetween(b.roomName, b.start, b.end))
            /\ b.hitCount >= BATTLE_MIN_HITS
    /\ \A k, l \in 1..Len(battles) :
        (k # l /\ battles[k].roomName = battles[l].roomName) =>
            battles[k].end < battles[l].start \/ battles[l].end < battles[k].start
    /\ SumHitCount(Len(battles)) <= Cardinality(ParseableHits)

\* ------------------------------------------------------------------ C22
\* the battles of room, as indices of battles
BattlesOf(room) == {i \in 1..Len(battles) : battles[i].roomName = room}

\* C22: the id of every battle is its room and a number; the numbers of the
\* battles of a room are 1 .. k without gaps, given in the order the battles
\* were pushed; within a room a larger number means a later start; the sort of
\* the returned list changes no id.
BattleIds ==
    /\ \A i \in 1..Len(battles) : battles[i].id[1] = battles[i].roomName
    /\ \A i \in 1..Len(battles) :
        {battles[j].id[2] : j \in BattlesOf(battles[i].roomName)}
            = 1..Cardinality(BattlesOf(battles[i].roomName))
    /\ bpc # "done" =>
        \A i, j \in 1..Len(battles) :
            (i < j /\ battles[i].roomName = battles[j].roomName) =>
                battles[i].id[2] < battles[j].id[2]
    /\ \A i, j \in 1..Len(battles) :
        (battles[i].roomName = battles[j].roomName
            /\ battles[i].id[2] < battles[j].id[2]) =>
                battles[i].start < battles[j].start

\* ------------------------------------------------------------------ C23
\* hit i comes before hit j in the events of a cluster: the earlier instant, and
\* the earlier place in the input among hits of one instant
HitBefore(i, j) ==
    \/ parseEventTime(hits[i].time) < parseEventTime(hits[j].time)
    \/ parseEventTime(hits[i].time) = parseEventTime(hits[j].time) /\ i < j

\* the first hit among C that names x
FirstHitOf(C, x) ==
    CHOOSE i \in C :
        /\ x \in {hits[i].attacker, hits[i].victim}
        /\ \A j \in C : x \in {hits[j].attacker, hits[j].victim} => ~HitBefore(j, i)

\* x appears before y in the events C (in one event the attacker comes first)
AppearsBefore(C, x, y) ==
    \/ HitBefore(FirstHitOf(C, x), FirstHitOf(C, y))
    \/ FirstHitOf(C, x) = FirstHitOf(C, y) /\ hits[FirstHitOf(C, x)].attacker = x /\ x # y

\* list holds the at most 3 users of the battle b that have the highest counts
\* in the role (attacker or victim), highest first and among equal counts the
\* one that appears first in the events; field is the count's name in list
IsTopList(b, list, role, field) ==
    LET C == HitsBetween(b.roomName, b.start, b.end)
        count(x) == Cardinality({i \in C : hits[i][role] = x})
        scorers == {hits[i][role] : i \in C} \ {""}
        ahead(x, y) == count(x) > count(y) \/ (count(x) = count(y) /\ AppearsBefore(C, x, y))
    IN  /\ Len(list) = Min(3, Cardinality(scorers))
        /\ \A k \in 1..Len(list) :
            list[k].user \in scorers /\ list[k][field] = count(list[k].user)
        /\ \A k \in 1..(Len(list) - 1) : ahead(list[k].user, list[k + 1].user)
        /\ \A x \in scorers \ {list[k].user : k \in 1..Len(list)} :
            ahead(list[Len(list)].user, x)

\* C23: in every returned battle topAttackers and topVictims hold the at most 3
\* participants with the most attacks and with the most hits taken, highest
\* first, a participant that appears earlier in the events of the cluster before
\* one with the same count.
TopListsByEvidenceOrder ==
    bpc = "done" =>
        \A k \in 1..Len(battles) :
            /\ IsTopList(battles[k], battles[k].topAttackers, "attacker", "attacks")
            /\ IsTopList(battles[k], battles[k].topVictims, "victim", "hitsTaken")

\* ------------------------------------------------------------------ C24
\* the instants of room that no other instant of the room precedes within the
\* limit, and those that none follows within it
ClusterStarts(room) ==
    {t \in ValidTimes(room) :
        \A t2 \in ValidTimes(room) :
            t2 < t => t - t2 > BATTLE_MAX_GAP_SECONDS * 1000}

ClusterEnds(room) ==
    {t \in ValidTimes(room) :
        \A t2 \in ValidTimes(room) :
            t < t2 => t2 - t > BATTLE_MAX_GAP_SECONDS * 1000}

\* room, start, end and size of the battles of the hits whose time parses: the
\* maximal gap-clusters of BATTLE_MIN_HITS hits or more
BattlesOfParseableHits ==
    LET spans == UNION {{room} \X ClusterStarts(room) \X ClusterEnds(room) :
                        room \in {RoomKey(hits[i]) : i \in ParseableHits}}
    IN  {<<w[1], w[2], w[3], Cardinality(HitsBetween(w[1], w[2], w[3]))>> :
            w \in {v \in spans :
                     /\ v[2] <= v[3]
                     /\ \A e \in ClusterEnds(v[1]) : ~(v[2] <= e /\ e < v[3])
                     /\ Cardinality(HitsBetween(v[1], v[2], v[3])) >= BATTLE_MIN_HITS}}

\* C24: an event whose time does not parse is in no sorted list and in no
\* cluster, the run does not end in an error, and the battles returned are the
\* battles of the events whose time parses (so a room without such events has
\* none).
UnparseableDropped ==
    /\ bpc # "threw"
    /\ \A i \in 1..Len(sorted) : sorted[i].t \notin {NoTime, InvalidDate}
    /\ \A i \in 1..Len(cluster) : cluster[i].t \notin {NoTime, InvalidDate}
    /\ \A k \in 1..Len(clusterLog) :
        clusterLog[k].first # InvalidDate /\ clusterLog[k].last # InvalidDate
    /\ bpc = "done" =>
        {<<battles[k].roomName, battles[k].start, battles[k].end, battles[k].hitCount>> :
            k \in 1..Len(battles)} = BattlesOfParseableHits

\* ------------------------------------------------------------------ C25
\* the room an event belongs to: its roomName, the roomId when it has no name,
\* "Unknown" when it has neither
RoomOf(evt) ==
    CASE evt.roomName # "" -> evt.roomName
      [] evt.roomName = "" /\ evt.roomId # "" -> evt.roomId
      [] OTHER -> "Unknown"

\* the hits of the room that have an instant, from from to to
RoomHitsBetween(room, from, to) ==
    {i \in ParseableHits :
        /\ RoomOf(hits[i]) = room
        /\ parseEventTime(hits[i].time) >= from
        /\ parseEventTime(hits[i].time) <= to}

\* C25: the events are partitioned by room (roomName, else roomId, else
\* "Unknown"), as seen when the partition is built; during the sweep of a room
\* the sorted list and the cluster hold events of that room only; every battle,
\* as seen whenever a room is finished, carries its room as roomName and counts
\* only hits and users of that room, each hit but the last followed within the
\* limit by a hit of the same room (no other room bridges a gap); and two
\* clusters of a room are separated only where the room's own neighbouring
\* events are not within the limit of each other (no other room splits a
\* cluster).
RoomIsolation ==
    /\ (bpc = "rooms" /\ roomIdx = 0) =>
        /\ \A i \in 1..Len(hits) : \E k \in 1..Len(byRoom) : byRoom[k].room = RoomOf(hits[i])
        /\ \A k, l \in 1..Len(byRoom) : byRoom[k].room = byRoom[l].room => k = l
        /\ \A k \in 1..Len(byRoom) :
            byRoom[k].evts = SelectSeq(hits, LAMBDA e : RoomOf(e) = byRoom[k].room)
    /\ bpc = "sweep" =>
        /\ \A i \in 1..Len(sorted) : RoomOf(sorted[i].evt) = byRoom[roomIdx].room
        /\ \A i \in 1..Len(cluster) : RoomOf(cluster[i].evt) = byRoom[roomIdx].room
    /\ bpc \in {"rooms", "done"} =>
        \A k \in 1..Len(battles) :
            LET b == battles[k]
                C == RoomHitsBetween(b.roomName, b.start, b.end)
            IN  /\ b.id[1] = b.roomName
                /\ b.hitCount = Cardinality(C)
                /\ \E i \in C : parseEventTime(hits[i].time) = b.start
                /\ \E i \in C : parseEventTime(hits[i].time) = b.end
                /\ \A i \in C :
                    parseEventTime(hits[i].time) < b.end =>
                        \E j \in C :
                            /\ parseEventTime(hits[j].time) > parseEventTime(hits[i].time)
                            /\ parseEventTime(hits[j].time) - parseEventTime(hits[i].time)
                                   <= BATTLE_MAX_GAP_SECONDS * 1000
                /\ {b.participants[q].user : q \in 1..Len(b.participants)}
                       = ({hits[i].attacker : i \in C} \cup {hits[i].victim : i \in C}) \ {""}
    /\ \A k \in 1..(Len(clusterLog) - 1) :
        LET c == clusterLog[k]
            d == clusterLog[k + 1]
        IN  (c.room = d.room /\ c.last # InvalidDate /\ d.first # InvalidDate) =>
                d.first - c.last > BATTLE_MAX_GAP_SECONDS * 1000

\* a call returned two battles of different rooms, one of them the room of the
\* events that name none, each starting while the other was going on or about
\* to start
RoomIsolationWitness ==
    /\ bpc = "done"
    /\ Len(battles) = 2
    /\ battles[1].roomName # battles[2].roomName
    /\ \E k \in 1..2 : battles[k].roomName = "Unknown"
    /\ battles[2].start < battles[1].start
    /\ battles[1].start < battles[2].end
    /\ battles[1].hitCount = BATTLE_MIN_HITS
    /\ battles[2].hitCount = BATTLE_MIN_HITS

\* ------------------------------------------------------------------ C26
\* d is the whole number nearest to millis / 60000, the upper one of two that
\* are equally near
IsNearestMinute(d, millis) ==
    /\ 2 * millis >= 60000 * (2 * d - 1)
    /\ 2 * millis < 60000 * (2 * d + 1)

\* C26: the durationMinutes of every battle is the larger of 1 and the time
\* from its start to its end rounded to whole minutes; it is never below 1,
\* also when all events of the battle share one timestamp.
DurationFloor ==
    \A k \in 1..Len(battles) :
        LET b == battles[k]
        IN  /\ b.durationMinutes \in Nat
            /\ b.durationMinutes >= 1
            /\ \/ b.durationMinutes = 1 /\ 2 * (b.end - b.start) < 3 * 60000
               \/ b.durationMinutes >= 2
                    /\ IsNearestMinute(b.durationMinutes, b.end - b.start)

\* a call returned a battle whose events share one timestamp, of 1 minute, and a
\* battle of 14 minutes and a half, of 15 minutes
DurationFloorWitness ==
    /\ bpc = "done"
    /\ \E k \in 1..Len(battles) :
        /\ battles[k].start = battles[k].end
        /\ battles[k].durationMinutes = 1
    /\ \E k \in 1..Len(battles) :
        /\ battles[k].end - battles[k].start = 29 * 30000
        /\ battles[k].durationMinutes = 15

\* ------------------------------------------------------------------ C27
\* the records of the result that name x as user1 and y as user2
RecordsOf(x, y) ==
    {i \in 1..Len(conflicts) : conflicts[i].user1 = x /\ conflicts[i].user2 = y}

\* x and y are the ends of an edge, and both hold a real team
AssignedEdge(x, y) ==
    Linked(x, y) /\ teamOf[x] \in RealTeams /\ teamOf[y] \in RealTeams

\* C27: in the result every edge between two distinct users that hold the same
\* real team has exactly two Conflict records, one with each end as user1, both
\* with the weight of the edge as edgeCount; an edge whose ends hold opposite
\* teams has none, and no record names two users that are not the ends of an
\* edge between assigned users; so no record names a second user exactly when
\* every edge between assigned users joins opposite teams.
EdgeConflictsExact ==
    pc = "done" =>
        /\ \A x, y \in Users :
            (x # y /\ AssignedEdge(x, y)) =>
                IF teamOf[x] = teamOf[y]
                THEN /\ Cardinality(RecordsOf(x, y)) = 1
                     /\ Cardinality(RecordsOf(y, x)) = 1
                     /\ \A i \in RecordsOf(x, y) \cup RecordsOf(y, x) :
                            conflicts[i].edgeCount = Weight(x, y)
                ELSE RecordsOf(x, y) \cup RecordsOf(y, x) = {}
        /\ \A i \in 1..Len(conflicts) :
            conflicts[i].user2 # Null =>
                AssignedEdge(conflicts[i].user1, conflicts[i].user2)
        /\ ({i \in 1..Len(conflicts) : conflicts[i].user2 # Null} = {})
              <=> \A x, y \in Users : AssignedEdge(x, y) => teamOf[x] # teamOf[y]

\* the result holds an edge of weight 2 or more between two users of one team,
\* recorded from both ends, and an edge that joins opposite teams
EdgeConflictsExactWitness ==
    /\ pc = "done"
    /\ \E x, y \in Users :
        /\ x # y
        /\ AssignedEdge(x, y)
        /\ teamOf[x] = teamOf[y]
        /\ Weight(x, y) >= 2
        /\ Cardinality(RecordsOf(x, y)) = 1
        /\ Cardinality(RecordsOf(y, x)) = 1
    /\ \E x, y \in Users :
        /\ AssignedEdge(x, y)
        /\ teamOf[x] # teamOf[y]

\* ------------------------------------------------------------------ C28
\* the events between x and a user whose team in the result is the one opposite
\* to x's
HitsWithOpposite(x) ==
    {i \in 1..Len(events) :
        \/ /\ events[i].attacker = x
           /\ events[i].victim \in Users
           /\ teamOf[events[i].victim] = OtherTeam(teamOf[x])
        \/ /\ events[i].victim = x
           /\ events[i].attacker \in Users
           /\ teamOf[events[i].attacker] = OtherTeam(teamOf[x])}

\* C28: in the result the confidence of every inferred user is
\* 0.6 + 0.4 * min(1, W / 20), in hundredths 60 + 2 * min(W, 20), where W is the
\* number of hits between the user and users of the opposite team; hits
\* between users of one team do not enter it, and no inferred user is below
\* 0.62 however many conflict records name it.
ConfidenceIgnoresConflicts ==
    pc = "done" =>
        \A x \in Users :
            inferenceSource[x] = "inferred" =>
                /\ confidence[x] = 60 + 2 * Min(Cardinality(HitsWithOpposite(x)), 20)
                /\ confidence[x] >= 62

\* the result has an inferred user with 11 hits from the opposite team and a
\* recorded edge of 11 hits with a user of its own team: 0.82, not 1
ConfidenceIgnoresConflictsWitness ==
    /\ pc = "done"
    /\ \E x \in Users :
        /\ inferenceSource[x] = "inferred"
        /\ Cardinality(HitsWithOpposite(x)) = BurstLen
        /\ confidence[x] = 60 + 2 * BurstLen
        /\ \E i \in 1..Len(conflicts) :
            /\ conflicts[i].user2 = x
            /\ conflicts[i].user1 # x
            /\ conflicts[i].edgeCount = BurstLen

\* ------------------------------------------------------------------ C29
RECURSIVE SumOf(_, _)
\* the sum of the field of the records of seq
SumOf(seq, field) ==
    IF seq = <<>> THEN 0 ELSE Head(seq)[field] + SumOf(Tail(seq), field)

\* C29: in every battle, as seen whenever a room is finished and in the list
\* returned, the attacks of the participants add up to the number of events of
\* the cluster that name an attacker and their hitsTaken to the number that
\* name a victim (both to hitCount when every event names both);
\* every participant has attacks + hitsTaken >= 1; uniqueUsers is the number of
\* participants and the number of distinct users named in the cluster.
StatsConserved ==
    bpc \in {"rooms", "done"} =>
        \A k \in 1..Len(battles) :
            LET b == battles[k]
                C == HitsBetween(b.roomName, b.start, b.end)
                named == ({hits[i].attacker : i \in C} \cup {hits[i].victim : i \in C}) \ {""}
            IN  /\ SumOf(b.participants, "attacks")
                     = Cardinality({i \in C : hits[i].attacker # ""})
                /\ SumOf(b.participants, "hitsTaken")
                     = Cardinality({i \in C : hits[i].victim # ""})
                /\ (\A i \in C : hits[i].attacker # "" /\ hits[i].victim # "") =>
                        /\ SumOf(b.participants, "attacks") = b.hitCount
                        /\ SumOf(b.participants, "hitsTaken") = b.hitCount
                /\ \A q \in 1..Len(b.participants) :
                        b.participants[q].attacks + b.participants[q].hitsTaken >= 1
                /\ b.uniqueUsers = Len(b.participants)
                /\ b.uniqueUsers = Cardinality(named)
                /\ {b.participants[q].user : q \in 1..Len(b.participants)} = named

\* a call returned a battle of a cluster with an event that names no attacker
\* and one that names no victim: fewer attacks and hits taken than hits
StatsConservedWitness ==
    /\ bpc = "done"
    /\ \E k \in 1..Len(battles) :
        LET b == battles[k]
            C == HitsBetween(b.roomName, b.start, b.end)
        IN  /\ \E i \in C : hits[i].attacker = "" /\ hits[i].victim # ""
            /\ \E i \in C : hits[i].victim = "" /\ hits[i].attacker # ""
            /\ SumOf(b.participants, "attacks") = b.hitCount - 2
            /\ SumOf(b.participants, "hitsTaken") = b.hitCount - 2
            /\ b.uniqueUsers = 5

\* ------------------------------------------------------------------ C30
\* the number of events in which x hits x
SelfHits(x) ==
    Cardinality({i \in 1..Len(events) : events[i].attacker = x /\ events[i].victim = x})

\* the entries x holds for itself in the adjacency map
SelfEntries(x) == {k \in 1..Len(adj[x]) : adj[x][k].v = x}

\* C30: when the graph is built a user that hits itself in n > 0 events holds one
\* entry for itself, of weight 2 * n, and no other user holds one; in the result
\* such a user has exactly one Conflict record with itself as user1 and user2
\* (edgeCount 2 * n) when its team is Penguin or Reindeer and none when it is
\* Unknown; and a call on the events without the self-hits returns the other
\* conflict records unchanged and, for every user with a real team, the same
\* team, confidence and source.
SelfHitsBecomeConflicts ==
    /\ pc = "seed" =>
        \A x \in Users :
            IF SelfHits(x) > 0
            THEN /\ Cardinality(SelfEntries(x)) = 1
                 /\ \A k \in SelfEntries(x) : adj[x][k].n = 2 * SelfHits(x)
            ELSE SelfEntries(x) = {}
    /\ pc = "done" =>
        \A x \in Users :
            IF SelfHits(x) > 0 /\ teamOf[x] \in RealTeams
            THEN /\ Cardinality(RecordsOf(x, x)) = 1
                 /\ \A i \in RecordsOf(x, x) :
                        /\ conflicts[i].edgeCount = 2 * SelfHits(x)
                        /\ conflicts[i].team1 = teamOf[x]
                        /\ conflicts[i].team2 = teamOf[x]
            ELSE RecordsOf(x, x) = {}
    /\ (run = 2 /\ pc = "done") =>
        LET first == firstResult[1]
        IN  /\ conflicts = SelectSeq(first.conflicts, LAMBDA c : c.user1 # c.user2)
            /\ \A x \in Users :
                first.teamMap[x] \in RealTeams =>
                    /\ teamOf[x] = first.teamMap[x]
                    /\ confidence[x] = first.confidence[x]
                    /\ inferenceSource[x] = first.inferenceSource[x]

\* both calls have returned; the first recorded the self-loop of an inferred
\* user, whose team and confidence the second returns too
SelfHitsBecomeConflictsWitness ==
    /\ run = 2
    /\ pc = "done"
    /\ \E x \in Users :
        /\ firstResult[1].inferenceSource[x] = "inferred"
        /\ \E i \in 1..Len(firstResult[1].conflicts) :
            /\ firstResult[1].conflicts[i].user1 = x
            /\ firstResult[1].conflicts[i].user2 = x
            /\ firstResult[1].conflicts[i].edgeCount = 2
        /\ RecordsOf(x, x) = {}
        /\ teamOf[x] \in RealTeams
        /\ confidence[x] = firstResult[1].confidence[x]
====
